---- MODULE Spec2Model ----
(***************************************************************************)
(* A model of the java-class-format decoder: the constant-pool decoder and *)
(* its typed index resolution (raw.rs), the ConstantValue accessors and    *)
(* Code::instructions (attributes.rs), the operand resolvers and the       *)
(* instruction decoder (instruction.rs), and the descriptor grammar        *)
(* (field.rs, method.rs).                                                  *)
(*                                                                         *)
(* Byte streams are sequences of numbers 0..255 and a reader position is   *)
(* the number of bytes already consumed.  Strings are sequences of byte    *)
(* values.  A read returns [ok, v, pos]; a resolution returns              *)
(* [res, val, err] with res one of "Ok", "Err", "Panic" (a Rust panic:     *)
(* the program aborts instead of returning).                               *)
(***************************************************************************)
EXTENDS Integers, Sequences, FiniteSets, TLC

VARIABLES
    overflow_checks, \* the build traps integer overflow (debug) or wraps (release)
    entries,     \* the constant pool the stream was constructed from
    stream,      \* the bytes handed to ClassFile::parse
    pos,         \* reader position in stream
    pc,          \* where ClassFile::parse stands
    cpool_count, \* ConstantPool::read_options: the declared count
    i,           \* ConstantPool::read_options: the logical index
    cpool,       \* ConstantPool::read_options: the slots pushed so far
    decodedAt,   \* history: the logical index at which each item was decoded
    outcome,     \* what ClassFile::parse returned
    query,       \* the last resolution made on the parsed class and its result
    cf,          \* the ClassFile a method's code belongs to
    code,        \* Code.code: the bytes of the method's code array
    cursor,      \* Code::instructions: the cursor position
    res,         \* Code::instructions: the instructions decoded so far
    starts,      \* history: the cursor position at which each of them started
    ipc,         \* where Code::instructions stands
    iresult,     \* what Code::instructions returned
    sample,      \* what the text or bytes given to a parser or decoder were written from
    given,       \* the text or bytes handed to a parser or decoder
    applied,     \* the parser or decoder applied to given, and what it returned
    member,      \* the raw field or method record the accessors are called on
    calls        \* history: the accessor calls made so far and their results

vars == <<overflow_checks, entries, stream, pos, pc, cpool_count, i, cpool, decodedAt,
          outcome, query, cf, code, cursor, res, starts, ipc, iresult,
          sample, given, applied, member, calls>>

poolVars == <<entries, stream, pos, pc, cpool_count, i, cpool, decodedAt, outcome, query>>
codeVars == <<cf, code, cursor, res, starts, ipc, iresult>>
pureVars == <<sample, given, applied>>
accessVars == <<member, calls>>

-----------------------------------------------------------------------------
(* Bounds of the model.                                                    *)

\* most entries of a constructed constant pool
MaxEntries == 3
\* most leading one-byte instructions placed before a sample instruction
MaxLead == 3
\* most bytes cut from the end of a code array
MaxCut == 2

-----------------------------------------------------------------------------
(* Reading big-endian values from a byte stream (binrw's primitive reads). *)

ReadOk(v, p) == [ok |-> TRUE, v |-> v, pos |-> p]
ReadFail(p) == [ok |-> FALSE, v |-> 0, pos |-> p]

\* a reader that hands out a zero past the end instead of failing
ReadU8_ZeroFill(s, p) ==
    IF p + 1 <= Len(s) THEN ReadOk(s[p + 1], p + 1) ELSE ReadOk(0, p + 1)

ReadU8(s, p) ==
    IF p + 1 <= Len(s) THEN ReadOk(s[p + 1], p + 1) ELSE ReadFail(p)

ReadU16(s, p) ==
    IF p + 2 <= Len(s) THEN ReadOk(s[p + 1] * 256 + s[p + 2], p + 2) ELSE ReadFail(p)

\* a signed 32-bit value, two's complement
ReadI32(s, p) ==
    IF p + 4 <= Len(s)
    THEN LET b0 == IF s[p + 1] >= 128 THEN s[p + 1] - 256 ELSE s[p + 1]
         IN ReadOk(((b0 * 256 + s[p + 2]) * 256 + s[p + 3]) * 256 + s[p + 4], p + 4)
    ELSE ReadFail(p)

\* n raw bytes (read_exact)
ReadBytes(s, p, n) ==
    IF p + n <= Len(s) THEN ReadOk(SubSeq(s, p + 1, p + n), p + n) ELSE ReadFail(p)

U16Bytes(v) == <<v \div 256, v % 256>>

-----------------------------------------------------------------------------
(* String::from_utf8: the well-formed byte sequences of UTF-8.             *)

InRange(b, lo, hi) == lo <= b /\ b <= hi

RECURSIVE Utf8Valid(_)
Utf8Valid(s) ==
    IF s = <<>> THEN TRUE
    ELSE LET b == s[1]
             n == Len(s)
             Cont(k) == k <= n /\ InRange(s[k], 128, 191)
         IN  IF b <= 127 THEN Utf8Valid(Tail(s))
             ELSE IF InRange(b, 194, 223)
                  THEN Cont(2) /\ Utf8Valid(SubSeq(s, 3, n))
             ELSE IF b = 224
                  THEN n >= 2 /\ InRange(s[2], 160, 191) /\ Cont(3) /\ Utf8Valid(SubSeq(s, 4, n))
             ELSE IF InRange(b, 225, 236) \/ InRange(b, 238, 239)
                  THEN Cont(2) /\ Cont(3) /\ Utf8Valid(SubSeq(s, 4, n))
             ELSE IF b = 237
                  THEN n >= 2 /\ InRange(s[2], 128, 159) /\ Cont(3) /\ Utf8Valid(SubSeq(s, 4, n))
             ELSE IF b = 240
                  THEN n >= 2 /\ InRange(s[2], 144, 191) /\ Cont(3) /\ Cont(4)
                       /\ Utf8Valid(SubSeq(s, 5, n))
             ELSE IF InRange(b, 241, 243)
                  THEN Cont(2) /\ Cont(3) /\ Cont(4) /\ Utf8Valid(SubSeq(s, 5, n))
             ELSE IF b = 244
                  THEN n >= 2 /\ InRange(s[2], 128, 143) /\ Cont(3) /\ Cont(4)
                       /\ Utf8Valid(SubSeq(s, 5, n))
             ELSE FALSE

-----------------------------------------------------------------------------
(* ConstantPoolItem: a decoded entry is [tag, a, b, s].                    *)
(*   Class, String, MethodType, Module, Package: a = the Utf8 index        *)
(*   Fieldref, Methodref, InterfaceMethodref: a = class_index,             *)
(*                                            b = name_and_type_index      *)
(*   NameAndType: a = name_index, b = descriptor_index                     *)
(*   Dynamic, InvokeDynamic: a = bootstrap_method_attr_index,              *)
(*                           b = name_and_type_index                       *)
(*   MethodHandle: a = reference.kind, b = reference.index                 *)
(*   Integer: a = value;  Float, Long, Double: s = the value's bytes       *)
(*   Utf8: s = value;  Skip: the catch-all / padding marker                *)

Item(tag, a, b, s) == [tag |-> tag, a |-> a, b |-> b, s |-> s]
Skip == Item("Skip", 0, 0, <<>>)

\* the magic byte of every variant that has one
Magic ==
    [Class |-> 7, Fieldref |-> 9, Methodref |-> 10, InterfaceMethodref |-> 11,
     String |-> 8, Integer |-> 3, Float |-> 4, Long |-> 5, Double |-> 6,
     NameAndType |-> 12, Utf8 |-> 1, MethodHandle |-> 15, MethodType |-> 16,
     Dynamic |-> 17, InvokeDynamic |-> 18, Module |-> 19, Package |-> 20]

OneIndexTags == {"Class", "String", "MethodType", "Module", "Package"}
TwoIndexTags == {"Fieldref", "Methodref", "InterfaceMethodref", "NameAndType",
                 "Dynamic", "InvokeDynamic"}
MagicTags == DOMAIN Magic

TagOfMagic(m) == CHOOSE t \in MagicTags : Magic[t] = m

\* The fields of the variant `tag`, read at position p (just after the magic).
ReadVariant(tag, s, p) ==
    IF tag \in OneIndexTags
    THEN LET x == ReadU16(s, p) IN
         IF x.ok THEN ReadOk(Item(tag, x.v, 0, <<>>), x.pos) ELSE ReadFail(p)
    ELSE IF tag \in TwoIndexTags
    THEN LET x == ReadU16(s, p)
             y == ReadU16(s, x.pos)
         IN IF x.ok /\ y.ok THEN ReadOk(Item(tag, x.v, y.v, <<>>), y.pos) ELSE ReadFail(p)
    ELSE IF tag = "Integer"
    THEN LET x == ReadI32(s, p) IN
         IF x.ok THEN ReadOk(Item(tag, x.v, 0, <<>>), x.pos) ELSE ReadFail(p)
    ELSE IF tag = "Float"
    THEN LET x == ReadBytes(s, p, 4) IN
         IF x.ok THEN ReadOk(Item(tag, 0, 0, x.v), x.pos) ELSE ReadFail(p)
    ELSE IF tag \in {"Long", "Double"}
    THEN LET x == ReadBytes(s, p, 8) IN
         IF x.ok THEN ReadOk(Item(tag, 0, 0, x.v), x.pos) ELSE ReadFail(p)
    ELSE IF tag = "Utf8"
    THEN LET length == ReadU16(s, p)
             value == ReadBytes(s, length.pos, length.v)
         IN IF length.ok /\ value.ok /\ Utf8Valid(value.v)
            THEN ReadOk(Item(tag, 0, 0, value.v), value.pos) ELSE ReadFail(p)
    ELSE \* MethodHandle { reference: Reference { kind: u8, index: u16 } }
         LET kind == ReadU8(s, p)
             index == ReadU16(s, kind.pos)
         IN IF kind.ok /\ index.ok
            THEN ReadOk(Item(tag, kind.v, index.v, <<>>), index.pos) ELSE ReadFail(p)

\* ConstantPoolItem::read_be: binrw tries the variants in order, each from the
\* same position; a variant whose magic or fields fail is abandoned.  The last
\* variant, Skip, has neither magic nor fields, so it matches whenever no
\* other does and consumes nothing.
ConstantPoolItem_read(s, p) ==
    LET Variant(r) == IF r.ok THEN r ELSE ReadOk(Skip, p) IN
    IF p + 1 <= Len(s) /\ \E t \in MagicTags : Magic[t] = s[p + 1]
    THEN Variant(ReadVariant(TagOfMagic(s[p + 1]), s, p + 1))
    ELSE ReadOk(Skip, p)

\* a decoder that forgets the second slot of a Long or Double
Bump_AlwaysOne(item) == 1

\* the bump of the logical index after an item
Bump(item) == IF item.tag \in {"Long", "Double"} THEN 2 ELSE 1

\* a decoder that advances the index but pushes no padding slot
PushItem_NoPadding(pool, item) == Append(pool, item)

\* cpool.push(item); for _ in 1..bump { cpool.push(Skip) }
PushItem(pool, item) ==
    IF Bump(item) = 2 THEN pool \o <<item, Skip>> ELSE Append(pool, item)

-----------------------------------------------------------------------------
(* Results and errors.  An error is [kind, binrw, cause, expected, found,  *)
(* index]: kind is the variant of crate::Error; for kind "BinrwError",     *)
(* binrw is the variant of binrw::Error and cause the kind of the crate    *)
(* error boxed inside a binrw::Error::Custom ("none" when there is none).  *)

Err0(kind, binrw, cause, expected, found, index) ==
    [kind |-> kind, binrw |-> binrw, cause |-> cause,
     expected |-> expected, found |-> found, index |-> index]

NoError == Err0("none", "none", "none", "none", "none", 0)

\* Error::ConstantPoolError(format!("expected {}, found {:?}", ...))
ConstantPoolError(expected, found) ==
    Err0("ConstantPoolError", "none", "none", expected, found, 0)

\* Error::NomError, from a nom::Err<nom::error::Error<&str>>
NomError == Err0("NomError", "none", "none", "none", "none", 0)

NoBootstrapMethods == Err0("NoBootstrapMethods", "none", "none", "none", "none", 0)

InvalidBootstrapIndex(idx) == Err0("InvalidBootstrapIndex", "none", "none", "none", "none", idx)

\* Error::BinrwError(e), from a binrw::Error (#[from])
BinrwError(e) == [e EXCEPT !.kind = "BinrwError"]

\* the binrw::Error values themselves (kind is filled in by BinrwError)
BinrwIo == Err0("binrw", "Io", "none", "none", "none", 0)
BinrwAssertFail == Err0("binrw", "AssertFail", "none", "none", "none", 0)
BinrwBadMagic == Err0("binrw", "BadMagic", "none", "none", "none", 0)
\* binrw::Error::Custom { pos, err: Box::new(x) }
BinrwCustom(x) == [x EXCEPT !.kind = "binrw", !.binrw = "Custom", !.cause = x.kind]
\* binrw::Error::EnumErrors: no variant of an enum parsed; e is the error of
\* the variant whose magic matched (BadMagic when none did)
BinrwEnumErrors(e) == [e EXCEPT !.binrw = "EnumErrors"]

Ok(v) == [res |-> "Ok", val |-> v, err |-> NoError]
Err(e) == [res |-> "Err", val |-> <<>>, err |-> e]
\* a panic: the call does not return
Panic == [res |-> "Panic", val |-> <<>>, err |-> NoError]

-----------------------------------------------------------------------------
(* Typed indices (index_ty!) and their resolution.                         *)

\* the slot &pool.0[index as usize - 1] exists: the subtraction and the
\* slice index both succeed
InPool(index, pool) == 1 <= index /\ index <= Len(pool)

\* what index_ty! returns for a matching slot, before nested resolution
RECURSIVE get_as_string_impl(_, _, _)
get_as_string_impl(name, index, pool) ==
    IF ~InPool(index, pool) THEN Panic
    ELSE LET x == pool[index] IN
         IF x.tag # name THEN Err(ConstantPoolError(name, x.tag))
         ELSE IF name = "Utf8" THEN Ok(x.s)
         ELSE IF name \in {"Class", "NameAndType"}
              THEN get_as_string_impl("Utf8", x.a, pool)
         ELSE Ok(<<>>)   \* MethodHandle: { "" }

TypedIndexKinds == {"Utf8", "Class", "NameAndType", "MethodHandle"}

-----------------------------------------------------------------------------
(* ConstantValue: the accessors over constantvalue_index.                  *)

ConstantValueKinds == {"Integer", "Float", "Long", "Double", "String"}

\* accessors that hand out whatever the slot holds
ConstantValue_value_Unchecked(kind, index, pool) ==
    IF ~InPool(index, pool) THEN Panic
    ELSE IF pool[index].tag = "Integer" THEN Ok(pool[index].a)
    ELSE Ok(pool[index].s)

\* int_value, float_value, long_value, double_value, string_value
ConstantValue_value(kind, index, pool) ==
    IF ~InPool(index, pool) THEN Panic
    ELSE LET x == pool[index] IN
         IF x.tag # kind THEN Err(ConstantPoolError(kind, x.tag))
         ELSE IF kind = "Integer" THEN Ok(x.a)
         ELSE IF kind = "String" THEN get_as_string_impl("Utf8", x.a, pool)
         ELSE Ok(x.s)

-----------------------------------------------------------------------------
(* The descriptor grammar (nom parsers).  A parse returns [ok, v, rest].   *)
(* A TypeDescriptor is [base, name, dims]: dims counts the Array nodes     *)
(* wrapped around the element type base (Array(Array(Int)) has base "Int"  *)
(* and dims 2); name is the class name of a ClassName and <<>> otherwise.  *)

ParseOk(v, rest) == [ok |-> TRUE, v |-> v, rest |-> rest]
ParseFail(rest) == [ok |-> FALSE, v |-> <<>>, rest |-> rest]

Ty(base, name, dims) == [base |-> base, name |-> name, dims |-> dims]

\* the letters of the primitive types: B C D F I J S Z
PrimitiveOf ==
    [c \in {66, 67, 68, 70, 73, 74, 83, 90} |->
        CASE c = 66 -> "Byte" [] c = 67 -> "Char" [] c = 68 -> "Double"
          [] c = 70 -> "Float" [] c = 73 -> "Int" [] c = 74 -> "Long"
          [] c = 83 -> "Short" [] c = 90 -> "Boolean"]

\* "Ljava/lang/String;" and "Ljava/lang/Class;"
TagJavaLangString == <<76, 106, 97, 118, 97, 47, 108, 97, 110, 103, 47, 83, 116, 114, 105, 110, 103, 59>>
TagJavaLangClass == <<76, 106, 97, 118, 97, 47, 108, 97, 110, 103, 47, 67, 108, 97, 115, 115, 59>>

\* a tag that never matches
HasPrefix_Never(input, t) == FALSE

\* nom's tag: input starts with t
HasPrefix(input, t) == Len(input) >= Len(t) /\ SubSeq(input, 1, Len(t)) = t

DropN(input, n) == SubSeq(input, n + 1, Len(input))

\* nom's is_not(";"): the length of the longest prefix without `;` (59)
RECURSIVE IsNotSemi(_)
IsNotSemi(input) ==
    IF input = <<>> \/ input[1] = 59 THEN 0 ELSE 1 + IsNotSemi(Tail(input))

RECURSIVE TypeDescriptor_parse(_)
TypeDescriptor_parse(input) ==
    LET ClassName(n) ==
            IF n >= 1 /\ Len(input) >= n + 2 /\ input[n + 2] = 59
            THEN ParseOk(Ty("ClassName", SubSeq(input, 2, n + 1), 0), DropN(input, n + 2))
            ELSE ParseFail(input)
        Array(x) ==
            IF x.ok THEN ParseOk([x.v EXCEPT !.dims = @ + 1], x.rest) ELSE ParseFail(input)
    IN  IF input = <<>> THEN ParseFail(input)
        ELSE IF input[1] \in DOMAIN PrimitiveOf
        THEN ParseOk(Ty(PrimitiveOf[input[1]], <<>>, 0), Tail(input))
        ELSE IF HasPrefix(input, TagJavaLangString)
        THEN ParseOk(Ty("String", <<>>, 0), DropN(input, Len(TagJavaLangString)))
        ELSE IF HasPrefix(input, TagJavaLangClass)
        THEN ParseOk(Ty("Class", <<>>, 0), DropN(input, Len(TagJavaLangClass)))
        ELSE IF input[1] = 76   \* delimited(char('L'), is_not(";"), char(';'))
        THEN ClassName(IsNotSemi(Tail(input)))
        ELSE IF input[1] = 91   \* preceded(char('['), Self::parse)
        THEN Array(TypeDescriptor_parse(Tail(input)))
        ELSE ParseFail(input)

\* a repetition that stops after the first type
Many0TypeDescriptor_AtMostOne(input) ==
    LET After(x) == IF x.ok THEN ParseOk(<<x.v>>, x.rest) ELSE ParseOk(<<>>, input)
    IN  After(TypeDescriptor_parse(input))

\* nom's many0(TypeDescriptor::parse): [ok, v = the types, rest]
RECURSIVE Many0TypeDescriptor(_)
Many0TypeDescriptor(input) ==
    LET Cons(v, more) == ParseOk(<<v>> \o more.v, more.rest)
        After(x) == IF ~x.ok THEN ParseOk(<<>>, input)
                    ELSE Cons(x.v, Many0TypeDescriptor(x.rest))
    IN  After(TypeDescriptor_parse(input))

\* the absent return type (`V`) of a method descriptor
NoType == Ty("none", <<>>, 0)

\* MethodDescriptor::parse: `(` params `)` then `V` or a type;
\* v = [param_tys, return_ty] with return_ty = NoType for None
MethodDescriptor_parse(input) ==
    LET Typed(param_tys, r) ==
            IF r.ok THEN ParseOk([param_tys |-> param_tys, return_ty |-> r.v], r.rest)
            ELSE ParseFail(input)
        Return(param_tys, after) ==
            IF after # <<>> /\ after[1] = 86
            THEN ParseOk([param_tys |-> param_tys, return_ty |-> NoType], Tail(after))
            ELSE Typed(param_tys, TypeDescriptor_parse(after))
        Params(ps) ==
            IF ps.rest = <<>> \/ ps.rest[1] # 41 THEN ParseFail(input)
            ELSE Return(ps.v, Tail(ps.rest))
    IN  IF input = <<>> \/ input[1] # 40 THEN ParseFail(input)
        ELSE Params(Many0TypeDescriptor(Tail(input)))

-----------------------------------------------------------------------------
(* The attribute container: Attributes(HashMap<String, Vec<u8>>) is a      *)
(* function from names to payloads.                                        *)

NoAttributes == [n \in {} |-> <<>>]

\* "Code"
NameCode == <<67, 111, 100, 101>>

\* an insert that keeps only the attribute named Code
InsertAttribute_KnownOnly(attrs, name, info) ==
    IF name # NameCode THEN attrs
    ELSE [n \in DOMAIN attrs \cup {name} |-> IF n = name THEN info ELSE attrs[n]]

\* HashMap::insert, as collect() applies it in file order
InsertAttribute(attrs, name, info) ==
    [n \in DOMAIN attrs \cup {name} |-> IF n = name THEN info ELSE attrs[n]]

\* a 32-bit length: its two high bytes, when not zero, ask for more bytes
\* than any stream of the model holds
ReadU32(s, p) ==
    IF p + 4 <= Len(s)
    THEN IF s[p + 1] = 0 /\ s[p + 2] = 0
         THEN ReadOk(s[p + 3] * 256 + s[p + 4], p + 4)
         ELSE ReadOk(65536, p + 4)
    ELSE ReadFail(p)

\* Attributes::read_options, entries `done`..attributes_count-1: each entry
\* is a name index (resolved at once, an error becoming ""), a 32-bit length
\* and the payload.  Returns [res, val = the map, pos].
RECURSIVE Attributes_entries(_, _, _, _, _)
Attributes_entries(s, p, left, pool, attrs) ==
    IF left = 0 THEN [res |-> "Ok", val |-> attrs, pos |-> p]
    ELSE LET name_index == ReadU16(s, p)
             name == get_as_string_impl("Utf8", name_index.v, pool)
             attribute_len == ReadU32(s, name_index.pos)
             info == ReadBytes(s, attribute_len.pos, attribute_len.v)
         IN  IF ~name_index.ok THEN [res |-> "Err", val |-> attrs, pos |-> p]
             ELSE IF name.res = "Panic" THEN [res |-> "Panic", val |-> attrs, pos |-> p]
             ELSE IF ~attribute_len.ok \/ ~info.ok
                  THEN [res |-> "Err", val |-> attrs, pos |-> p]
             ELSE Attributes_entries(s, info.pos, left - 1, pool,
                      InsertAttribute(attrs,
                          IF name.res = "Ok" THEN name.val ELSE <<>>, info.v))

Attributes_read_options(s, p, pool) ==
    LET attributes_count == ReadU16(s, p) IN
    IF ~attributes_count.ok THEN [res |-> "Err", val |-> NoAttributes, pos |-> p]
    ELSE Attributes_entries(s, attributes_count.pos, attributes_count.v, pool, NoAttributes)

-----------------------------------------------------------------------------
(* BootstrapMethods.                                                       *)

\* "BootstrapMethods"
NameBootstrapMethods == <<66, 111, 111, 116, 115, 116, 114, 97, 112, 77, 101, 116, 104, 111, 100, 115>>

\* count u16 values: [ok, v = the values, pos]
ReadU16s(s, p, count) ==
    IF p + 2 * count <= Len(s)
    THEN ReadOk([k \in 1..count |-> s[p + 2 * k - 1] * 256 + s[p + 2 * k]], p + 2 * count)
    ELSE ReadFail(p)

\* BootstrapMethodRaw: bootstrap_method_ref, num_bootstrap_args, bootstrap_args
BootstrapMethodRaw_read(s, p) ==
    LET ref == ReadU16(s, p)
        num_bootstrap_args == ReadU16(s, ref.pos)
        args == ReadU16s(s, num_bootstrap_args.pos, num_bootstrap_args.v)
    IN IF ref.ok /\ num_bootstrap_args.ok /\ args.ok
       THEN ReadOk([bootstrap_method_ref |-> ref.v, bootstrap_args |-> args.v], args.pos)
       ELSE ReadFail(p)

RECURSIVE BootstrapMethodRaws_read(_, _, _)
BootstrapMethodRaws_read(s, p, count) ==
    IF count = 0 THEN ReadOk(<<>>, p)
    ELSE LET x == BootstrapMethodRaw_read(s, p) IN
         IF ~x.ok THEN ReadFail(p)
         ELSE LET more == BootstrapMethodRaws_read(s, x.pos, count - 1) IN
              IF more.ok THEN ReadOk(<<x.v>> \o more.v, more.pos) ELSE ReadFail(p)

\* BootstrapMethods: bootstrap_methods_length, then that many entries
BootstrapMethods_read(s) ==
    LET bootstrap_methods_length == ReadU16(s, 0) IN
    IF ~bootstrap_methods_length.ok THEN ReadFail(0)
    ELSE BootstrapMethodRaws_read(s, bootstrap_methods_length.pos, bootstrap_methods_length.v)

Some(v) == [some |-> TRUE, v |-> v]
None == [some |-> FALSE, v |-> <<>>]

\* ClassFile::bootstrap_methods: the class-level BootstrapMethods attribute,
\* decoded on demand; None when the class has no attribute of that name
ClassFile_bootstrap_methods(class) ==
    LET Decoded(r) == IF r.ok THEN Ok(Some(r.v)) ELSE Err(BinrwError(BinrwIo)) IN
    IF NameBootstrapMethods \notin DOMAIN class.attributes THEN Ok(None)
    ELSE Decoded(BootstrapMethods_read(class.attributes[NameBootstrapMethods]))

-----------------------------------------------------------------------------
(* The operand resolvers of instruction.rs.                                *)

\* NameAndTypeIndex::get_name and get_descriptor: the nested Utf8 entries
\* of a NameAndType, bounds- and variant-checked
NameAndTypeIndex_get_name(index, pool) ==
    IF ~InPool(index, pool) THEN Err(ConstantPoolError("NameAndType", "none"))
    ELSE IF pool[index].tag # "NameAndType"
         THEN Err(ConstantPoolError("NameAndType", pool[index].tag))
    ELSE get_as_string_impl("Utf8", pool[index].a, pool)

NameAndTypeIndex_get_descriptor(index, pool) ==
    IF ~InPool(index, pool) THEN Err(ConstantPoolError("NameAndType", "none"))
    ELSE IF pool[index].tag # "NameAndType"
         THEN Err(ConstantPoolError("NameAndType", pool[index].tag))
    ELSE get_as_string_impl("Utf8", pool[index].b, pool)

\* a resolved reference; the fields a resolver does not fill keep these values
NoRef ==
    [class |-> <<>>, name |-> <<>>, field_ty |-> NoType,
     method_ty |-> [param_tys |-> <<>>, return_ty |-> NoType], handle_kind |-> 0]

\* the body shared by FieldRef::from_u16, MethodRef::from_u16 and
\* InterfaceMethodRef::from_u16: the match on the slot, then class, name,
\* descriptor and its parse, each with `?`
MemberRef_from_u16(tag, expected, index, class) ==
    LET pool == class.constant_pool
        Field(cls, name, d) ==
            IF d.ok THEN Ok([NoRef EXCEPT !.class = cls, !.name = name, !.field_ty = d.v])
            ELSE Err(NomError)
        Method(cls, name, d) ==
            IF d.ok THEN Ok([NoRef EXCEPT !.class = cls, !.name = name, !.method_ty = d.v])
            ELSE Err(NomError)
        Resolved(cls, name, descriptor) ==
            IF cls.res # "Ok" THEN cls
            ELSE IF name.res # "Ok" THEN name
            ELSE IF descriptor.res # "Ok" THEN descriptor
            ELSE IF tag = "Fieldref"
            THEN Field(cls.val, name.val, TypeDescriptor_parse(descriptor.val))
            ELSE Method(cls.val, name.val, MethodDescriptor_parse(descriptor.val))
    IN  IF ~InPool(index, pool) THEN Panic
        ELSE IF pool[index].tag # tag THEN Err(ConstantPoolError(expected, pool[index].tag))
        ELSE Resolved(get_as_string_impl("Class", pool[index].a, pool),
                      NameAndTypeIndex_get_name(pool[index].b, pool),
                      NameAndTypeIndex_get_descriptor(pool[index].b, pool))

FieldRef_from_u16(index, class) ==
    MemberRef_from_u16("Fieldref", "FieldRef", index, class)

MethodRef_from_u16(index, class) ==
    MemberRef_from_u16("Methodref", "MethodRef", index, class)

InterfaceMethodRef_from_u16(index, class) ==
    MemberRef_from_u16("InterfaceMethodref", "InterfaceMethodRef", index, class)

MaybeInterfaceMethodRef_from_u16(index, class) ==
    LET pool == class.constant_pool IN
    IF ~InPool(index, pool) THEN Panic
    ELSE IF pool[index].tag = "InterfaceMethodref" THEN InterfaceMethodRef_from_u16(index, class)
    ELSE IF pool[index].tag = "Methodref" THEN MethodRef_from_u16(index, class)
    ELSE Err(ConstantPoolError("MethodRef or InterfaceMethodRef", pool[index].tag))

MethodHandle_from_u16(index, class) ==
    LET pool == class.constant_pool
        OfKind(kind, r) == IF r.res = "Ok" THEN Ok([r.val EXCEPT !.handle_kind = kind]) ELSE r
        Reference(kind, ref) ==
            OfKind(kind,
                   IF kind \in 1..4 THEN FieldRef_from_u16(ref, class)
                   ELSE IF kind \in {5, 8} THEN MethodRef_from_u16(ref, class)
                   ELSE IF kind \in {6, 7} THEN MaybeInterfaceMethodRef_from_u16(ref, class)
                   ELSE IF kind = 9 THEN InterfaceMethodRef_from_u16(ref, class)
                   ELSE Err(ConstantPoolError("reference_kind", "invalid")))
    IN  IF ~InPool(index, pool) THEN Panic
        ELSE IF pool[index].tag # "MethodHandle"
        THEN Err(ConstantPoolError("MethodRef or InterfaceMethodRef", pool[index].tag))
        ELSE Reference(pool[index].a, pool[index].b)

\* BootstrapMethods::get
BootstrapMethods_get(idx, bootstrap_methods, class) ==
    LET Found(method) == IF method.res = "Ok" THEN Ok(Some(method.val)) ELSE method IN
    IF idx + 1 <= Len(bootstrap_methods)
    THEN Found(MethodHandle_from_u16(bootstrap_methods[idx + 1].bootstrap_method_ref, class))
    ELSE Ok(None)

DynamicInfo_from_u16(index, class) ==
    LET pool == class.constant_pool
        Named(x, bootstrap_method, name, d) ==
            IF d.ok
            THEN Ok([bootstrap_method EXCEPT !.name = name, !.method_ty = d.v])
            ELSE Err(NomError)
        Resolved(x, bootstrap_method, name, descriptor) ==
            IF bootstrap_method.res # "Ok" THEN bootstrap_method
            ELSE IF ~bootstrap_method.val.some THEN Err(InvalidBootstrapIndex(x.a))
            ELSE IF name.res # "Ok" THEN name
            ELSE IF descriptor.res # "Ok" THEN descriptor
            ELSE Named(x, bootstrap_method.val.v, name.val,
                       MethodDescriptor_parse(descriptor.val))
        With(x, bootstrap_methods) ==
            IF bootstrap_methods.res # "Ok" THEN bootstrap_methods
            ELSE IF ~bootstrap_methods.val.some THEN Err(NoBootstrapMethods)
            ELSE Resolved(x, BootstrapMethods_get(x.a, bootstrap_methods.val.v, class),
                          NameAndTypeIndex_get_name(x.b, pool),
                          NameAndTypeIndex_get_descriptor(x.b, pool))
    IN  IF ~InPool(index, pool) THEN Panic
        ELSE IF pool[index].tag # "InvokeDynamic"
        THEN Err(ConstantPoolError("InvokeDynamic", pool[index].tag))
        ELSE With(pool[index], ClassFile_bootstrap_methods(class))

OperandKinds == {"FieldRef", "MethodRef", "InterfaceMethodRef", "MethodHandle", "DynamicInfo"}

\* from_u16 of the operand type `kind`
Operand_from_u16(kind, index, class) ==
    CASE kind = "FieldRef" -> FieldRef_from_u16(index, class)
      [] kind = "MethodRef" -> MethodRef_from_u16(index, class)
      [] kind = "InterfaceMethodRef" -> InterfaceMethodRef_from_u16(index, class)
      [] kind = "MaybeInterfaceMethodRef" -> MaybeInterfaceMethodRef_from_u16(index, class)
      [] kind = "MethodHandle" -> MethodHandle_from_u16(index, class)
      [] kind = "DynamicInfo" -> DynamicInfo_from_u16(index, class)

-----------------------------------------------------------------------------
(* The instruction decoder.  A decoded instruction is                      *)
(* [opcode, index, value, extra, words, ref, pad]:                         *)
(*   index: the u8/u16 operand named index (or atype), as read             *)
(*   value: the immediate (byte, offset, constant, default, dimensions)    *)
(*   extra: a second immediate (iinc constant, invokeinterface count,      *)
(*          wide sub-opcode and constant, low/high, the unused padding)    *)
(*   words: the jump offsets, or the (match, offset) pairs flattened       *)
(*   ref:   the reference resolved from the pool operand                   *)
(*   pad:   the bytes BytePad skipped                                      *)

Ins(opcode, index, value, extra, words, ref, pad) ==
    [opcode |-> opcode, index |-> index, value |-> value, extra |-> extra,
     words |-> words, ref |-> ref, pad |-> pad]

\* the opcodes by operand layout
NoOperandOps == (0..15) \cup (26..53) \cup (59..131) \cup (133..152)
                    \cup (172..177) \cup {190, 191, 194, 195}
U8IndexOps == {18, 21, 22, 23, 24, 25, 54, 55, 56, 57, 58, 169, 188}
BranchOps == (153..168) \cup {198, 199}
WideBranchOps == {200, 201}
U16IndexOps == {19, 20}
ClassOps == {187, 189, 192, 193}
FieldOps == {178, 179, 180, 181}
MaybeInterfaceOps == {183, 184}

I8(b) == IF b >= 128 THEN b - 256 ELSE b
I16(w) == IF w >= 32768 THEN w - 65536 ELSE w

MaxI32 == 2147483647
MinI32 == -2147483647 - 1

\* [res, ins, pos, err]: what reading one variant's fields gives
InsOk(ins, p) == [res |-> "Ok", ins |-> ins, pos |-> p, err |-> NoError]
InsErr(e, p) == [res |-> "Err", ins |-> Ins(0, 0, 0, <<>>, <<>>, NoRef, 0), pos |-> p, err |-> e]
InsPanic(p) == [res |-> "Panic", ins |-> Ins(0, 0, 0, <<>>, <<>>, NoRef, 0), pos |-> p,
                err |-> NoError]

\* a pad without the early return: an aligned reader skips four bytes
BytePad_read_NoEarlyReturn(p) == p + (4 - (p % 4))

\* BytePad::read_options at reader position p: the position after the seek
BytePad_read(p) ==
    LET d4 == p % 4 IN
    IF d4 = 0 THEN p ELSE p + (4 - d4)

\* count i32 values: [ok, v, pos]
ReadI32s(s, p, count) ==
    IF p + 4 * count <= Len(s)
    THEN ReadOk([k \in 1..count |-> ReadI32(s, p + 4 * (k - 1)).v], p + 4 * count)
    ELSE ReadFail(p)

\* a pool operand decoded by from_u16_binread!: the u16, then from_u16 with
\* its error boxed in binrw::Error::Custom
OperandRead(kind, s, p, class) ==
    LET Resolved(index, r) ==
            IF r.res = "Panic"
            THEN [res |-> "Panic", index |-> index.v, ref |-> NoRef, pos |-> p,
                  err |-> NoError]
            ELSE IF r.res = "Err"
            THEN [res |-> "Err", index |-> index.v, ref |-> NoRef, pos |-> p,
                  err |-> BinrwCustom(r.err)]
            ELSE [res |-> "Ok", index |-> index.v, ref |-> r.val, pos |-> index.pos,
                  err |-> NoError]
        With(index) ==
            IF ~index.ok
            THEN [res |-> "Err", index |-> 0, ref |-> NoRef, pos |-> p, err |-> BinrwIo]
            ELSE Resolved(index, Operand_from_u16(kind, index.v, class))
    IN  With(ReadU16(s, p))

\* a class operand: #[br(try_map = |x: ClassIndex| x.get_as_string(cf))]
ClassOperandRead(s, p, class) ==
    LET Resolved(index, r) ==
            IF r.res = "Panic"
            THEN [res |-> "Panic", index |-> index.v, ref |-> NoRef, pos |-> p,
                  err |-> NoError]
            ELSE IF r.res = "Err"
            THEN [res |-> "Err", index |-> index.v, ref |-> NoRef, pos |-> p,
                  err |-> BinrwCustom(r.err)]
            ELSE [res |-> "Ok", index |-> index.v, ref |-> [NoRef EXCEPT !.class = r.val],
                  pos |-> index.pos, err |-> NoError]
        With(index) ==
            IF ~index.ok
            THEN [res |-> "Err", index |-> 0, ref |-> NoRef, pos |-> p, err |-> BinrwIo]
            ELSE Resolved(index, get_as_string_impl("Class", index.v, class.constant_pool))
    IN  With(ReadU16(s, p))

\* Lookupswitch: _padding, default, npairs, pairs
Lookupswitch_read(s, p) ==
    LET at == BytePad_read(p)
        default == ReadI32(s, at)
        npairs == ReadU32(s, default.pos)
        pairs == IF npairs.v > Len(s) THEN ReadFail(p)
                 ELSE ReadI32s(s, npairs.pos, 2 * npairs.v)
    IN IF default.ok /\ npairs.ok /\ pairs.ok
       THEN InsOk(Ins(171, 0, default.v, <<>>, pairs.v, NoRef, at - p), pairs.pos)
       ELSE InsErr(BinrwIo, p)

\* Tableswitch: _padding, default, low, high, then high - low + 1 offsets.
\* The count is computed in i32: when it overflows, a build with overflow
\* checks panics and one without wraps to a negative count; a negative
\* count asks for more offsets than any stream holds.
Tableswitch_read(s, p, checks) ==
    LET at == BytePad_read(p)
        default == ReadI32(s, at)
        low == ReadI32(s, default.pos)
        high == ReadI32(s, low.pos)
        overflow == \/ (IF low.v < 0 THEN high.v > MaxI32 + low.v
                                     ELSE high.v < MinI32 + low.v)
                    \/ high.v - low.v = MaxI32
    IN IF ~(default.ok /\ low.ok /\ high.ok) THEN InsErr(BinrwIo, p)
       ELSE IF overflow THEN (IF checks THEN InsPanic(p) ELSE InsErr(BinrwIo, p))
       ELSE LET count == high.v - low.v + 1
                jump_offsets == IF count < 0 \/ count > Len(s) THEN ReadFail(p)
                                ELSE ReadI32s(s, high.pos, count)
            IN IF jump_offsets.ok
               THEN InsOk(Ins(170, 0, default.v, <<low.v, high.v>>, jump_offsets.v,
                              NoRef, at - p), jump_offsets.pos)
               ELSE InsErr(BinrwIo, p)

\* a wide that reads the constant after every sub-opcode
Wide_read_AlwaysConstant(s, p) ==
    LET opcode == ReadU8(s, p)
        index == ReadU16(s, opcode.pos)
        constant == ReadU16(s, index.pos)
    IN IF opcode.ok /\ index.ok /\ constant.ok
       THEN InsOk(Ins(196, index.v, 0, <<opcode.v, constant.v>>, <<>>, NoRef, 0), constant.pos)
       ELSE InsErr(BinrwIo, p)

\* Wide: opcode, index, and constant if opcode == 0x84
Wide_read(s, p) ==
    LET opcode == ReadU8(s, p)
        index == ReadU16(s, opcode.pos)
        constant == IF opcode.v = 132 THEN ReadU16(s, index.pos) ELSE ReadOk(0, index.pos)
    IN IF opcode.ok /\ index.ok /\ constant.ok
       THEN InsOk(Ins(196, index.v, 0, <<opcode.v, constant.v>>, <<>>, NoRef, 0), constant.pos)
       ELSE InsErr(BinrwIo, p)

\* the fields of the variant whose magic is op, read at position p (just
\* after the magic)
InstructionFields(op, s, p, class, checks) ==
    LET None0 == Ins(op, 0, 0, <<>>, <<>>, NoRef, 0)
        \* one fixed-width operand: x is the read, ins the instruction it gives
        One(x, ins) == IF x.ok THEN InsOk(ins, x.pos) ELSE InsErr(BinrwIo, p)
        \* a resolved operand r followed by the plain read x (ReadOk when none)
        Ref(r, x, extra) ==
            IF r.res = "Panic" THEN InsPanic(p)
            ELSE IF r.res = "Err" THEN InsErr(r.err, p)
            ELSE IF ~x.ok THEN InsErr(BinrwIo, p)
            ELSE InsOk(Ins(op, r.index, 0, extra, <<>>, r.ref, 0), x.pos)
        Class(c) ==
            IF c.res = "Ok" THEN InsOk(Ins(op, c.index, 0, <<>>, <<>>, c.ref, 0), c.pos)
            ELSE IF c.res = "Panic" THEN InsPanic(p) ELSE InsErr(c.err, p)
        Dimensions(c, d) ==
            IF c.res = "Panic" THEN InsPanic(p)
            ELSE IF c.res = "Err" THEN InsErr(c.err, p)
            ELSE IF ~d.ok THEN InsErr(BinrwIo, p)
            ELSE InsOk(Ins(op, c.index, d.v, <<>>, <<>>, c.ref, 0), d.pos)
        MultianewarrayOf(c) == Dimensions(c, ReadU8(s, c.pos))
        InvokedynamicOf(r) ==
            Ref(r, ReadU16(s, r.pos), <<ReadU16(s, r.pos).v>>)
        InvokeinterfaceOf(r) ==
            Ref(r, ReadU16(s, r.pos + 1), <<ReadU8(s, r.pos).v, ReadU16(s, r.pos + 1).v>>)
    IN
    IF op \in NoOperandOps THEN InsOk(None0, p)
    ELSE IF op \in U8IndexOps
    THEN One(ReadU8(s, p), [None0 EXCEPT !.index = ReadU8(s, p).v])
    ELSE IF op = 16   \* Bipush { byte: i8 }
    THEN One(ReadU8(s, p), [None0 EXCEPT !.value = I8(ReadU8(s, p).v)])
    ELSE IF op = 17   \* Sipush: #[br(map = |x: u16| x as i32)]
    THEN One(ReadU16(s, p), [None0 EXCEPT !.value = ReadU16(s, p).v])
    ELSE IF op \in U16IndexOps
    THEN One(ReadU16(s, p), [None0 EXCEPT !.index = ReadU16(s, p).v])
    ELSE IF op \in BranchOps
    THEN One(ReadU16(s, p), [None0 EXCEPT !.value = I16(ReadU16(s, p).v)])
    ELSE IF op \in WideBranchOps
    THEN One(ReadI32(s, p), [None0 EXCEPT !.value = ReadI32(s, p).v])
    ELSE IF op = 132   \* Iinc { index: u8, constant: i8 }
    THEN One(ReadU16(s, p), [None0 EXCEPT !.index = ReadU8(s, p).v,
                                          !.extra = <<I8(ReadU8(s, p + 1).v)>>])
    ELSE IF op \in ClassOps THEN Class(ClassOperandRead(s, p, class))
    ELSE IF op = 197   \* Multianewarray { class, dimensions: u8 }
    THEN MultianewarrayOf(ClassOperandRead(s, p, class))
    ELSE IF op \in FieldOps \cup MaybeInterfaceOps \cup {182}
    THEN Ref(OperandRead(IF op \in FieldOps THEN "FieldRef"
                         ELSE IF op = 182 THEN "MethodRef"
                         ELSE "MaybeInterfaceMethodRef", s, p, class),
             ReadOk(0, p + 2), <<>>)
    ELSE IF op = 186   \* Invokedynamic { index: DynamicInfo, _never_used: u16 }
    THEN InvokedynamicOf(OperandRead("DynamicInfo", s, p, class))
    ELSE IF op = 185   \* Invokeinterface { index, count: u8, _never_used: u16 }
    THEN InvokeinterfaceOf(OperandRead("InterfaceMethodRef", s, p, class))
    ELSE IF op = 171 THEN Lookupswitch_read(s, p)
    ELSE IF op = 170 THEN Tableswitch_read(s, p, checks)
    ELSE IF op = 196 THEN Wide_read(s, p)
    ELSE InsErr(BinrwBadMagic, p)   \* no variant has this magic

\* Instruction::read_be_args at position p: binrw tries the variants in
\* order; only the one whose magic matches reads its fields, and when it
\* fails (or none matches) the enum fails with EnumErrors.
Instruction_read(s, p, class, checks) ==
    LET Variant(r) == IF r.res = "Err" THEN InsErr(BinrwEnumErrors(r.err), p) ELSE r IN
    IF p + 1 > Len(s) THEN InsErr(BinrwEnumErrors(BinrwIo), p)
    ELSE Variant(InstructionFields(s[p + 1], s, p + 1, class, checks))

-----------------------------------------------------------------------------
(* ConstantPool::read_options.                                             *)

U16Max == 65535

\* a loop that stores the catch-all item instead of refusing it
ConstantPool_iteration_KeepSkip(s, p, idx, pool, checks) ==
    LET Read(r) == [res |-> "Ok", pool |-> PushItem(pool, r.v), pos |-> r.pos,
                    i |-> (idx + Bump(r.v)) % (U16Max + 1), item |-> r.v]
    IN  Read(ConstantPoolItem_read(s, p))

\* One pass of the loop body at logical index idx < cpool_count:
\* [res, pool, pos, i, item].  The item is read, a Skip is refused, the
\* item (and the padding slot after a Long or Double) is pushed, and the
\* index advances; `i += bump` is u16 arithmetic.
ConstantPool_iteration(s, p, idx, pool, checks) ==
    LET Pushed(item, at, bump) ==
            IF item.tag = "Skip"
            THEN [res |-> "Err", pool |-> pool, pos |-> p, i |-> idx, item |-> item]
            ELSE IF idx + bump > U16Max /\ checks
            THEN [res |-> "Panic", pool |-> PushItem(pool, item), pos |-> at, i |-> idx,
                  item |-> item]
            ELSE [res |-> "Ok", pool |-> PushItem(pool, item), pos |-> at,
                  i |-> (idx + bump) % (U16Max + 1), item |-> item]
        Read(r) == Pushed(r.v, r.pos, Bump(r.v))
    IN  Read(ConstantPoolItem_read(s, p))

-----------------------------------------------------------------------------
(* ClassFile: the fields after the constant pool.                          *)

\* the bits bitflags knows, for from_bits_truncate
ClassAccessMask == 63025
FieldAccessMask == 20703
MethodAccessMask == 53759

RECURSIVE BitAnd(_, _)
BitAnd(x, y) ==
    IF x = 0 \/ y = 0 THEN 0
    ELSE (x % 2) * (y % 2) + 2 * BitAnd(x \div 2, y \div 2)

\* FieldRaw and MethodRaw: access_flags, name_index, descriptor_index, attributes
\* [res, val, pos]
MemberRaw_read(s, p, pool, mask) ==
    LET access_flags == ReadU16(s, p)
        name_index == ReadU16(s, access_flags.pos)
        descriptor_index == ReadU16(s, name_index.pos)
        attributes == Attributes_read_options(s, descriptor_index.pos, pool)
    IN  IF ~(access_flags.ok /\ name_index.ok /\ descriptor_index.ok)
        THEN [res |-> "Err", val |-> <<>>, pos |-> p]
        ELSE IF attributes.res # "Ok" THEN [res |-> attributes.res, val |-> <<>>, pos |-> p]
        ELSE [res |-> "Ok",
              val |-> [access_flags |-> BitAnd(access_flags.v, mask),
                       name_index |-> name_index.v,
                       descriptor_index |-> descriptor_index.v,
                       attributes |-> attributes.val],
              pos |-> attributes.pos]

\* Vec<FieldRaw> / Vec<MethodRaw> with count
RECURSIVE MemberRaws_read(_, _, _, _, _)
MemberRaws_read(s, p, count, pool, mask) ==
    IF count = 0 THEN [res |-> "Ok", val |-> <<>>, pos |-> p]
    ELSE LET x == MemberRaw_read(s, p, pool, mask) IN
         IF x.res # "Ok" THEN x
         ELSE LET more == MemberRaws_read(s, x.pos, count - 1, pool, mask) IN
              IF more.res # "Ok" THEN more
              ELSE [res |-> "Ok", val |-> <<x.val>> \o more.val, pos |-> more.pos]

\* access_flags .. attributes of ClassFile, read at p with the decoded pool:
\* Ok(the ClassFile), Err(the binrw error) or Panic
ClassFile_rest(s, p, pool) ==
    LET access_flags == ReadU16(s, p)
        this_class == ReadU16(s, access_flags.pos)
        super_class == ReadU16(s, this_class.pos)
        interfaces_count == ReadU16(s, super_class.pos)
        interfaces == ReadU16s(s, interfaces_count.pos, interfaces_count.v)
        fields_count == ReadU16(s, interfaces.pos)
        fields == MemberRaws_read(s, fields_count.pos, fields_count.v, pool, FieldAccessMask)
        methods_count == ReadU16(s, fields.pos)
        methods == MemberRaws_read(s, methods_count.pos, methods_count.v, pool,
                                   MethodAccessMask)
        attributes == Attributes_read_options(s, methods.pos, pool)
    IN  IF ~(access_flags.ok /\ this_class.ok /\ super_class.ok /\ interfaces_count.ok
             /\ interfaces.ok /\ fields_count.ok)
        THEN Err(BinrwError(BinrwIo))
        ELSE IF fields.res = "Panic" THEN Panic
        ELSE IF fields.res = "Err" \/ ~methods_count.ok THEN Err(BinrwError(BinrwIo))
        ELSE IF methods.res = "Panic" THEN Panic
        ELSE IF methods.res = "Err" THEN Err(BinrwError(BinrwIo))
        ELSE IF attributes.res = "Panic" THEN Panic
        ELSE IF attributes.res = "Err" THEN Err(BinrwError(BinrwIo))
        ELSE Ok([constant_pool |-> pool,
                 access_flags |-> BitAnd(access_flags.v, ClassAccessMask),
                 this_class |-> this_class.v,
                 super_class |-> super_class.v,
                 interfaces |-> interfaces.v,
                 fields |-> fields.val,
                 methods |-> methods.val,
                 attributes |-> attributes.val])

\* magic = b"\xca\xfe\xba\xbe", then _minor_version and _major_version
ClassMagic == <<202, 254, 186, 190>>

-----------------------------------------------------------------------------
(* Constructing class files: the encodings the decoder is run on.          *)

I32Bytes(v) == <<(v \div 16777216) % 256, (v \div 65536) % 256, (v \div 256) % 256, v % 256>>

\* the class-file encoding of a constant-pool entry; an entry of tag
\* "Unknown" stands for an entry kind the decoder has no variant for and
\* is its tag byte a alone
EncodeItem(item) ==
    IF item.tag = "Unknown" THEN <<item.a>>
    ELSE <<Magic[item.tag]>> \o
         (IF item.tag \in OneIndexTags THEN U16Bytes(item.a)
          ELSE IF item.tag \in TwoIndexTags THEN U16Bytes(item.a) \o U16Bytes(item.b)
          ELSE IF item.tag = "Integer" THEN I32Bytes(item.a)
          ELSE IF item.tag = "Utf8" THEN U16Bytes(Len(item.s)) \o item.s
          ELSE IF item.tag = "MethodHandle" THEN <<item.a>> \o U16Bytes(item.b)
          ELSE item.s)

RECURSIVE EncodeItems(_)
EncodeItems(items) ==
    IF items = <<>> THEN <<>> ELSE EncodeItem(items[1]) \o EncodeItems(Tail(items))

\* the slots the first k entries occupy: two for a Long or Double
RECURSIVE SlotsOf(_, _)
SlotsOf(items, k) ==
    IF k = 0 THEN 0
    ELSE SlotsOf(items, k - 1) + (IF items[k].tag \in {"Long", "Double"} THEN 2 ELSE 1)

\* the constant-pool index of entry k of a constructed pool
LogicalIndex(items, k) == 1 + SlotsOf(items, k - 1)

\* "I", the descriptor of int, used as a name as well
StrI == <<73>>

SampleEntries ==
    { Item("Utf8", 0, 0, StrI),
      Item("Class", 1, 0, <<>>),
      Item("NameAndType", 1, 1, <<>>),
      Item("MethodHandle", 1, 2, <<>>),
      Item("Integer", -1, 0, <<>>),
      Item("Long", 0, 0, <<0, 0, 0, 0, 0, 0, 0, 1>>),
      Item("Double", 0, 0, <<64, 0, 0, 0, 0, 0, 0, 0>>),
      Item("String", 1, 0, <<>>),
      Item("Unknown", 2, 0, <<>>) }

\* what follows the pool: flags, this_class, super_class and the four tables
RestEmpty == <<0, 33, 0, 2, 0, 0, 0, 0, 0, 0, 0, 0, 0, 0>>
\* one interface, one field without attributes, one method with one
\* attribute (name index 1, two payload bytes), one class attribute
RestMembers ==
    <<255, 255, 0, 2, 0, 0>> \o <<0, 1, 0, 2>>
    \o <<0, 1, 255, 255, 0, 1, 0, 1, 0, 0>>
    \o <<0, 1, 255, 255, 0, 1, 0, 1, 0, 1, 0, 1, 0, 0, 0, 2, 7, 7>>
    \o <<0, 1, 0, 1, 0, 0, 0, 2, 0, 0>>

\* a first word that is not the class-file magic
BadMagic == <<202, 254, 186, 191>>

\* The ways a class file is built around a pool: skew is the declared count
\* minus the count the pool calls for, cut the bytes missing at the end.
Shape(magic, skew, rest, cut) == [magic |-> magic, skew |-> skew, rest |-> rest, cut |-> cut]

Shapes ==
    { Shape(ClassMagic, 0, RestEmpty, 0),
      Shape(ClassMagic, 0, RestMembers, 0),
      Shape(ClassMagic, -1, RestEmpty, 0),
      Shape(ClassMagic, 1, RestEmpty, 0),
      Shape(ClassMagic, 0, RestEmpty, Len(RestEmpty) + 1),
      Shape(BadMagic, 0, RestEmpty, 0) }

ClassBytes(items, shape) ==
    LET count == 1 + SlotsOf(items, Len(items)) + shape.skew
        bytes == shape.magic \o <<0, 0, 0, 52>> \o U16Bytes(IF count < 0 THEN 0 ELSE count)
                 \o EncodeItems(items) \o shape.rest
    IN  SubSeq(bytes, 1, Len(bytes) - shape.cut)

SeqsUpTo(S, n) == UNION {[1..k -> S] : k \in 0..n}

-----------------------------------------------------------------------------
(* The state machines.  ClassFile::parse runs over a constructed stream,   *)
(* and resolutions are then made on the class it returned;                 *)
(* Code::instructions runs over a code array of a fixed class.             *)

NoQuery == [op |-> "none", kind |-> "none", index |-> 0, result |-> Ok(<<>>)]
NoClass == [constant_pool |-> <<>>, attributes |-> NoAttributes]

InitPool ==
    /\ entries = <<>> /\ stream = <<>> /\ pos = 0 /\ pc = "idle"
    /\ cpool_count = 0 /\ i = 0 /\ cpool = <<>> /\ decodedAt = <<>>
    /\ outcome = Ok(<<>>) /\ query = NoQuery

InitCode ==
    /\ cf = NoClass /\ code = <<>> /\ cursor = 0 /\ res = <<>> /\ starts = <<>>
    /\ ipc = "idle" /\ iresult = Ok(<<>>)

\* no parser or decoder applied, no accessor called
NoApplied == [op |-> "none", result |-> Ok(<<>>)]
NoMember == [name_index |-> 0, descriptor_index |-> 0, attributes |-> NoAttributes]

InitPure == sample = <<>> /\ given = <<>> /\ applied = NoApplied

InitAccess == member = NoMember /\ calls = <<>>

Init ==
    /\ overflow_checks \in BOOLEAN
    /\ entries \in SeqsUpTo(SampleEntries, MaxEntries)
    /\ \E shape \in Shapes : stream = ClassBytes(entries, shape)
    /\ pos = 0 /\ pc = "header"
    /\ cpool_count = 0 /\ i = 0 /\ cpool = <<>> /\ decodedAt = <<>>
    /\ outcome = Ok(<<>>) /\ query = NoQuery
    /\ InitCode
    /\ InitPure
    /\ InitAccess

Finish(r) ==
    /\ pc' = "done"
    /\ outcome' = r

\* ClassFile: magic, _minor_version, _major_version
ReadHeader ==
    /\ pc = "header"
    /\ LET magic == ReadBytes(stream, pos, 4)
           minor == ReadU16(stream, magic.pos)
           major == ReadU16(stream, minor.pos)
       IN  IF ~magic.ok THEN Finish(Err(BinrwError(BinrwIo))) /\ pos' = pos
           ELSE IF magic.v # ClassMagic
                THEN Finish(Err(BinrwError(BinrwBadMagic))) /\ pos' = pos
           ELSE IF ~(minor.ok /\ major.ok)
                THEN Finish(Err(BinrwError(BinrwIo))) /\ pos' = pos
           ELSE pc' = "count" /\ pos' = major.pos /\ outcome' = outcome
    /\ UNCHANGED <<overflow_checks, entries, stream, cpool_count, i, cpool, decodedAt, query>>
    /\ UNCHANGED <<codeVars, pureVars, accessVars>>

\* ConstantPool::read_options: let cpool_count = u16::read_options(..)?; let mut i = 1
ReadCount ==
    /\ pc = "count"
    /\ LET count == ReadU16(stream, pos) IN
       IF ~count.ok
       THEN Finish(Err(BinrwError(BinrwIo))) /\ UNCHANGED <<pos, cpool_count, i>>
       ELSE /\ pc' = "items" /\ pos' = count.pos /\ cpool_count' = count.v /\ i' = 1
            /\ outcome' = outcome
    /\ UNCHANGED <<overflow_checks, entries, stream, cpool, decodedAt, query>>
    /\ UNCHANGED <<codeVars, pureVars, accessVars>>

\* one pass of the loop with i < cpool_count
ReadItem ==
    /\ pc = "items"
    /\ i < cpool_count
    /\ \E r \in {ConstantPool_iteration(stream, pos, i, cpool, overflow_checks)} :
          /\ pos' = r.pos
          /\ cpool' = r.pool
          /\ i' = r.i
          /\ decodedAt' = IF r.res = "Err" THEN decodedAt ELSE Append(decodedAt, i)
          /\ IF r.res = "Err" THEN Finish(Err(BinrwError(BinrwAssertFail)))
             ELSE IF r.res = "Panic" THEN Finish(Panic)
             ELSE pc' = pc /\ outcome' = outcome
    /\ UNCHANGED <<overflow_checks, entries, stream, cpool_count, query>>
    /\ UNCHANGED <<codeVars, pureVars, accessVars>>

\* if i >= cpool_count { break }; Ok(Self(cpool))
PoolDone ==
    /\ pc = "items"
    /\ i >= cpool_count
    /\ pc' = "rest"
    /\ UNCHANGED <<overflow_checks, entries, stream, pos, cpool_count, i, cpool, decodedAt,
                   outcome, query>>
    /\ UNCHANGED <<codeVars, pureVars, accessVars>>

\* the fields of ClassFile after constant_pool
ReadRest ==
    /\ pc = "rest"
    /\ Finish(ClassFile_rest(stream, pos, cpool))
    /\ UNCHANGED <<overflow_checks, entries, stream, pos, cpool_count, i, cpool, decodedAt,
                   query>>
    /\ UNCHANGED <<codeVars, pureVars, accessVars>>

\* A resolution reads the class and changes nothing, so every resolution is
\* made from the state the parse left: one per behaviour.
Parsed == pc = "done" /\ outcome.res = "Ok" /\ query = NoQuery

\* the raw indices a caller may hand to a resolution: 0, every slot, one past
Indices == 0..(Len(cpool) + 1)

Asked(op, kind, index, r) ==
    /\ query' = [op |-> op, kind |-> kind, index |-> index, result |-> r]
    /\ UNCHANGED <<overflow_checks, entries, stream, pos, pc, cpool_count, i, cpool,
                   decodedAt, outcome>>
    /\ UNCHANGED <<codeVars, pureVars, accessVars>>

\* Utf8Index, ClassIndex, NameAndTypeIndex, MethodHandleIndex :: get_as_string
ResolveTyped ==
    /\ Parsed
    /\ \E kind \in TypedIndexKinds, index \in Indices :
          Asked("typed", kind, index,
                get_as_string_impl(kind, index, outcome.val.constant_pool))

\* ConstantValue::{int,float,long,double,string}_value
ReadConstantValue ==
    /\ Parsed
    /\ \E kind \in ConstantValueKinds, index \in Indices :
          Asked("constant", kind, index,
                ConstantValue_value(kind, index, outcome.val.constant_pool))

\* FieldRef, MethodRef, InterfaceMethodRef, MethodHandle, DynamicInfo :: from_u16
ResolveOperand ==
    /\ Parsed
    /\ \E kind \in OperandKinds, index \in Indices :
          Asked("operand", kind, index, Operand_from_u16(kind, index, outcome.val))

Next ==
    \/ ReadHeader
    \/ ReadCount
    \/ ReadItem
    \/ PoolDone
    \/ ReadRest
    \/ ResolveTyped
    \/ ReadConstantValue
    \/ ResolveOperand

Spec == Init /\ [][Next]_vars

-----------------------------------------------------------------------------
(* Code::instructions over the code arrays of a fixed class.               *)

\* "A", "f", "()V"
StrA == <<65>>
StrF == <<102>>
StrVoidMethod == <<40, 41, 86>>

\* The decoded pool of the class the code arrays belong to, by
\* constant-pool index:
\*  1 Utf8 "A"       2 Class #1          3 Utf8 "f"        4 Utf8 "I"
\*  5 NameAndType #3:#4                  6 Fieldref #2.#5  7 Utf8 "()V"
\*  8 NameAndType #3:#7                  9 Methodref #2.#8
\* 10 InterfaceMethodref #2.#8          11 InvokeDynamic #0:#8
\* 12 MethodHandle 6 #9                 13 Long (and its padding slot 14)
\* 15 Utf8 "BootstrapMethods"           16 InvokeDynamic #1:#8
CodePool ==
    << Item("Utf8", 0, 0, StrA), Item("Class", 1, 0, <<>>),
       Item("Utf8", 0, 0, StrF), Item("Utf8", 0, 0, StrI),
       Item("NameAndType", 3, 4, <<>>), Item("Fieldref", 2, 5, <<>>),
       Item("Utf8", 0, 0, StrVoidMethod), Item("NameAndType", 3, 7, <<>>),
       Item("Methodref", 2, 8, <<>>), Item("InterfaceMethodref", 2, 8, <<>>),
       Item("InvokeDynamic", 0, 8, <<>>), Item("MethodHandle", 6, 9, <<>>),
       Item("Long", 0, 0, <<0, 0, 0, 0, 0, 0, 0, 1>>), Skip,
       Item("Utf8", 0, 0, NameBootstrapMethods),
       Item("InvokeDynamic", 1, 8, <<>>) >>

\* the class-level attributes: no BootstrapMethods attribute, one without
\* entries, one with the single entry #12
CodeAttributes ==
    { NoAttributes,
      InsertAttribute(NoAttributes, NameBootstrapMethods, <<0, 0>>),
      InsertAttribute(NoAttributes, NameBootstrapMethods, <<0, 1, 0, 12, 0, 0>>) }

Zeros(n) == [k \in 1..n |-> 0]

\* the padding a compiler puts after a switch opcode at position p
AlignPad(p) == 3 - (p % 4)

\* sample instructions, encoded for opcode position p
SampleBodies ==
    {"none", "bipush", "sipush", "goto_w", "wide_iinc", "wide_iload", "new", "getfield",
     "getfield_0", "invokevirtual", "invokeinterface", "invokedynamic",
     "invokedynamic_1",
     "tableswitch", "tableswitch_overflow", "lookupswitch", "unknown"}

EncodeBody(kind, p) ==
    CASE kind = "none" -> <<>>
      [] kind = "bipush" -> <<16, 251>>
      [] kind = "sipush" -> <<17, 255, 255>>
      [] kind = "goto_w" -> <<200>> \o I32Bytes(-8)
      [] kind = "wide_iinc" -> <<196, 132, 0, 1, 0, 2>>
      [] kind = "wide_iload" -> <<196, 21, 1, 2>>
      [] kind = "new" -> <<187, 0, 2>>
      [] kind = "getfield" -> <<180, 0, 6>>
      [] kind = "getfield_0" -> <<180, 0, 0>>
      [] kind = "invokevirtual" -> <<182, 0, 9>>
      [] kind = "invokeinterface" -> <<185, 0, 10, 1, 0>>
      [] kind = "invokedynamic" -> <<186, 0, 11, 0, 0>>
      [] kind = "invokedynamic_1" -> <<186, 0, 16, 0, 0>>
      [] kind = "tableswitch" ->
            <<170>> \o Zeros(AlignPad(p)) \o I32Bytes(20) \o I32Bytes(-1) \o I32Bytes(0)
            \o I32Bytes(16) \o I32Bytes(18)
      [] kind = "tableswitch_overflow" ->
            <<170>> \o Zeros(AlignPad(p)) \o I32Bytes(20) \o I32Bytes(1) \o I32Bytes(MinI32)
      [] kind = "lookupswitch" ->
            <<171>> \o Zeros(AlignPad(p)) \o I32Bytes(-1) \o I32Bytes(1)
            \o I32Bytes(0) \o I32Bytes(8)
      [] kind = "unknown" -> <<202>>

\* lead one-byte instructions (nop), two sample instructions, cut bytes short
CodeBytes(lead, first, second, cut) ==
    LET a == Zeros(lead) \o EncodeBody(first, lead)
        b == a \o EncodeBody(second, Len(a))
    IN  SubSeq(b, 1, IF cut > Len(b) THEN 0 ELSE Len(b) - cut)

InitCodeSpec ==
    /\ overflow_checks \in BOOLEAN
    /\ InitPool
    /\ \E attributes \in CodeAttributes :
          cf = [NoClass EXCEPT !.constant_pool = CodePool, !.attributes = attributes]
    /\ \E lead \in 0..MaxLead, first \in SampleBodies, second \in SampleBodies,
          cut \in 0..MaxCut :
          code = CodeBytes(lead, first, second, cut)
    /\ cursor = 0 /\ res = <<>> /\ starts = <<>>
    /\ ipc = "loop" /\ iresult = Ok(<<>>)
    /\ InitPure
    /\ InitAccess

\* one pass of the loop with the cursor before the end: read an instruction
\* and push it, or return the error
InstrStep ==
    /\ ipc = "loop"
    /\ cursor < Len(code)
    /\ \E r \in {Instruction_read(code, cursor, cf, overflow_checks)} :
          IF r.res = "Ok"
          THEN /\ res' = Append(res, r.ins)
               /\ starts' = Append(starts, cursor)
               /\ cursor' = r.pos
               /\ UNCHANGED <<ipc, iresult>>
          ELSE /\ ipc' = "done"
               /\ iresult' = IF r.res = "Panic" THEN Panic ELSE Err(BinrwError(r.err))
               /\ UNCHANGED <<res, starts, cursor>>
    /\ UNCHANGED <<overflow_checks, cf, code>>
    /\ UNCHANGED <<poolVars, pureVars, accessVars>>

\* if cursor.position() >= self.code.len() { break }; Ok(res)
InstrFinish ==
    /\ ipc = "loop"
    /\ cursor >= Len(code)
    /\ ipc' = "done"
    /\ iresult' = Ok(res)
    /\ UNCHANGED <<overflow_checks, cf, code, cursor, res, starts>>
    /\ UNCHANGED <<poolVars, pureVars, accessVars>>

NextCode ==
    \/ InstrStep
    \/ InstrFinish

SpecCode == InitCodeSpec /\ [][NextCode]_vars

-----------------------------------------------------------------------------
(* Properties of the constant pool and of resolution.  The pool is a       *)
(* sequence indexed from 1, so the slot the code calls pool.0[k - 1] is    *)
(* cpool[k] here.                                                          *)

WideTags == {"Long", "Double"}

\* the k-th decoded item is a Long or Double
DecodedWide(k) ==
    /\ k \in 1..Len(decodedAt)
    /\ decodedAt[k] <= Len(cpool)
    /\ cpool[decodedAt[k]].tag \in WideTags

\* C1: for every Long or Double decoded at logical index d, resolving d + 1
\* through a typed index (Utf8, Class, NameAndType, MethodHandle) returns a
\* ConstantPoolError (expected the requested kind, found the padding
\* marker): neither the value of the next real entry nor a panic.
C1_PaddingAfterWide ==
    \A k \in 1..Len(decodedAt) :
        (query.op = "typed" /\ DecodedWide(k) /\ query.index = decodedAt[k] + 1)
            => query.result = Err(ConstantPoolError(query.kind, "Skip"))

\* a Long or Double followed by a real entry of the kind asked for at d + 1
C1_Witness ==
    \E k \in 1..Len(decodedAt) :
        /\ query.op = "typed" /\ DecodedWide(k) /\ query.index = decodedAt[k] + 1
        /\ k < Len(decodedAt)
        /\ cpool[decodedAt[k + 1]].tag = query.kind

\* the constructed entry that sits at logical index idx (0 when none does)
EntryAt(items, idx) ==
    IF \E k \in 1..Len(items) : LogicalIndex(items, k) = idx
    THEN CHOOSE k \in 1..Len(items) : LogicalIndex(items, k) = idx
    ELSE 0

IsUtf8At(items, idx) == EntryAt(items, idx) # 0 /\ items[EntryAt(items, idx)].tag = "Utf8"

\* entry k was encoded with a value a typed index can return: a Utf8 always,
\* a MethodHandle always (its reference), a Class or NameAndType when its
\* name index names a Utf8 entry
Encodable(items, k) ==
    items[k].tag \in {"Class", "NameAndType"} => IsUtf8At(items, items[k].a)

\* the value entry k was encoded with
EncodedValue(items, k) ==
    IF items[k].tag = "Utf8" THEN items[k].s
    ELSE IF items[k].tag = "MethodHandle" THEN <<items[k].a, items[k].b>>
    ELSE items[EntryAt(items, items[k].a)].s

\* C2: round trip of a constructed pool: resolving a valid index of the
\* decoded pool with the typed index of the kind its entry was encoded with
\* (Utf8, Class, NameAndType, MethodHandle) returns the encoded value.
C2_RoundTrip ==
    \A k \in 1..Len(entries) :
        ( /\ query.op = "typed"
          /\ query.index = LogicalIndex(entries, k)
          /\ InPool(query.index, cpool)
          /\ query.kind = entries[k].tag
          /\ Encodable(entries, k)
          /\ entries[k].tag \in {"Class", "NameAndType"} => InPool(entries[k].a, cpool) )
            => query.result = Ok(EncodedValue(entries, k))

\* C3: the decoder reads the entries in file order from logical index 1,
\* advances the index by 2 after a Long or Double (pushing one padding
\* slot) and by 1 after any other entry, decodes nothing at or past the
\* declared count and stops once the index reaches it; the entry decoded
\* at logical index k is stored at slot k - 1.
C3_IndexArithmetic ==
    /\ Len(decodedAt) <= Len(entries)
    /\ \A k \in 1..Len(decodedAt) :
          /\ decodedAt[k] = LogicalIndex(entries, k)
          /\ decodedAt[k] < cpool_count
          /\ decodedAt[k] <= Len(cpool)
          /\ cpool[decodedAt[k]] = entries[k]
          /\ entries[k].tag \in WideTags =>
                /\ decodedAt[k] + 1 <= Len(cpool)
                /\ cpool[decodedAt[k] + 1] = Skip
    /\ pc \in {"items", "rest"} =>
          /\ i = 1 + SlotsOf(entries, Len(decodedAt))
          /\ Len(cpool) = i - 1
    /\ pc = "rest" => i >= cpool_count

\* a pool decoded to its end with a Long or Double in the middle
C3_Witness ==
    /\ pc = "rest"
    /\ Len(decodedAt) = 3
    /\ entries[2].tag \in WideTags
    /\ decodedAt = <<1, 2, 4>>
    /\ cpool[4] = entries[3]

\* C4: resolution is total: resolving index 0, or an index past the last
\* slot, through a typed index, a ConstantValue accessor or an operand
\* resolver returns an error to the caller.
C4_ResolutionTotal ==
    (query.op # "none" /\ ~InPool(query.index, cpool)) => query.result.res = "Err"

\* C5: resolving an in-range index whose slot holds another variant than
\* the one requested returns a ConstantPoolError naming the expected and
\* the found variant, for the typed indices and the ConstantValue
\* accessors; an accessor returns a value only from a slot of its kind,
\* and then the slot's value.
C5_VariantMismatch ==
    /\ ( /\ query.op \in {"typed", "constant"}
         /\ InPool(query.index, cpool)
         /\ cpool[query.index].tag # query.kind )
          => query.result = Err(ConstantPoolError(query.kind, cpool[query.index].tag))
    /\ (query.op = "constant" /\ query.result.res = "Ok")
          => /\ InPool(query.index, cpool)
             /\ cpool[query.index].tag = query.kind
             /\ query.kind = "Integer" => query.result.val = cpool[query.index].a
             /\ query.kind \in {"Float", "Long", "Double"}
                   => query.result.val = cpool[query.index].s

\* int_value asked of a slot that holds a Long
C5_Witness ==
    /\ query.op = "constant" /\ query.kind = "Integer"
    /\ InPool(query.index, cpool)
    /\ cpool[query.index].tag = "Long"
    /\ query.result.res = "Err"

\* entry k of the constructed pool is an unrecognised tag inside the
\* declared count
UnknownWithinCount(k) ==
    /\ k \in 1..Len(entries)
    /\ entries[k].tag = "Unknown"
    /\ entries[k].a \notin {Magic[t] : t \in MagicTags}
    /\ LogicalIndex(entries, k) < cpool_count

\* C6: when an entry within the declared count starts with a tag byte that
\* is none of the recognised tags, ClassFile parsing fails with a binary
\* decode error: the pool never completes, no ClassFile is produced and
\* nothing is stored at the entry's slot.
C6_UnknownTagFatal ==
    \A k \in 1..Len(entries) :
        UnknownWithinCount(k) =>
            /\ Len(cpool) < LogicalIndex(entries, k)
            /\ pc # "rest"
            /\ pc = "done" => /\ outcome.res = "Err"
                              /\ outcome.err.kind = "BinrwError"

\* an unrecognised tag met after two entries were decoded
C6_Witness ==
    /\ pc = "done"
    /\ UnknownWithinCount(3)
    /\ Len(decodedAt) = 2
    /\ outcome = Err(BinrwError(BinrwAssertFail))

-----------------------------------------------------------------------------
(* Properties of Code::instructions.                                       *)

\* the bytes the encoding of a decoded instruction takes, operands and
\* padding included
EncodedLength(ins) ==
    LET op == ins.opcode IN
    1 + (IF op \in NoOperandOps THEN 0
         ELSE IF op \in U8IndexOps \cup {16} THEN 1
         ELSE IF op \in U16IndexOps \cup BranchOps \cup ClassOps \cup FieldOps
                        \cup MaybeInterfaceOps \cup {17, 132, 182} THEN 2
         ELSE IF op = 197 THEN 3
         ELSE IF op \in WideBranchOps \cup {186} THEN 4
         ELSE IF op = 185 THEN 5
         ELSE IF op = 171 THEN ins.pad + 8 + 4 * Len(ins.words)
         ELSE IF op = 170 THEN ins.pad + 12 + 4 * Len(ins.words)
         ELSE IF ins.extra[1] = 132 THEN 5 ELSE 3)

\* where the instruction after the k-th decoded one starts
EndOf(k) == IF k < Len(starts) THEN starts[k + 1] ELSE cursor

\* C7: whenever Code::instructions returns successfully the cursor is at
\* code_length and the lengths of the returned instructions sum to it: the
\* instructions tile the code array from offset 0, and the cursor is never
\* past the end after an instruction was decoded.
C7_ConsumesCodeLength ==
    /\ Len(starts) = Len(res)
    /\ cursor <= Len(code)
    /\ \A k \in 1..Len(res) :
          /\ starts[k] = (IF k = 1 THEN 0 ELSE EndOf(k - 1))
          /\ EndOf(k) = starts[k] + EncodedLength(res[k])
    /\ (ipc = "done" /\ iresult.res = "Ok") =>
          /\ cursor = Len(code)
          /\ iresult.val = res

\* a code array with a padded switch in it, decoded to its end
C7_Witness ==
    /\ ipc = "done" /\ iresult.res = "Ok"
    /\ Len(code) > 0
    /\ \E k \in 1..Len(res) : res[k].opcode = 170 /\ res[k].pad = 2 /\ k < Len(res)

\* C8: decoding is all-or-nothing: when the code array ends inside an
\* instruction, or an opcode or operand fails to decode, Code::instructions
\* returns an error and none of the instructions decoded before it.
C8_AllOrNothing ==
    ipc = "done" =>
        \/ iresult.res = "Ok" /\ cursor = Len(code)
        \/ iresult.res = "Err" /\ iresult.val = <<>>

\* where the default of the k-th decoded instruction, a switch, was read
DefaultAt(k) == starts[k] + 1 + res[k].pad

\* C9: for a tableswitch or lookupswitch at any opcode position p the
\* decoder skips 0 to 3 bytes after the opcode, and the default is read at
\* the smallest multiple of 4 greater than p, counted from the start of
\* the code array.
C9_SwitchAlignment ==
    \A k \in 1..Len(res) :
        res[k].opcode \in {170, 171} =>
            /\ res[k].pad \in 0..3
            /\ DefaultAt(k) % 4 = 0
            /\ DefaultAt(k) > starts[k]
            /\ DefaultAt(k) - 4 <= starts[k]
            /\ DefaultAt(k) + 4 <= Len(code)
            /\ res[k].value = ReadI32(code, DefaultAt(k)).v

\* switches decoded at positions of every residue mod 4
SwitchAt(r, op) ==
    \E k \in 1..Len(res) : res[k].opcode = op /\ starts[k] % 4 = r

C9_Witness ==
    /\ SwitchAt(3, 171)
    /\ \E k \in 1..Len(res) :
          res[k].opcode = 170 /\ starts[k] % 4 = 0 /\ res[k].pad = 3 /\ res[k].value = 20

\* the class has no class-level BootstrapMethods attribute
NoBootstrapAttribute == NameBootstrapMethods \notin DOMAIN cf.attributes

\* the instruction at the cursor is an invokedynamic whose operand names
\* an InvokeDynamic entry of the pool
AtInvokedynamic ==
    /\ cursor + 3 <= Len(code)
    /\ code[cursor + 1] = 186
    /\ InPool(ReadU16(code, cursor + 1).v, cf.constant_pool)
    /\ cf.constant_pool[ReadU16(code, cursor + 1).v].tag = "InvokeDynamic"

\* C10: decoding a method that contains an invokedynamic, in a class
\* without a BootstrapMethods attribute, reports Error::NoBootstrapMethods
\* to the caller.
C10_NoBootstrapMethodsReported ==
    (ipc = "done" /\ NoBootstrapAttribute /\ AtInvokedynamic)
        => /\ iresult.res = "Err"
           /\ iresult.err.kind = "NoBootstrapMethods"

\* the bootstrap index b of the InvokeDynamic entry the invokedynamic at
\* the cursor names
BootstrapIndexAtCursor == cf.constant_pool[ReadU16(code, cursor + 1).v].a

\* the class has a BootstrapMethods attribute whose table decodes and has
\* at most b entries
TableAtMost(b) ==
    /\ ~NoBootstrapAttribute
    /\ BootstrapMethods_read(cf.attributes[NameBootstrapMethods]).ok
    /\ Len(BootstrapMethods_read(cf.attributes[NameBootstrapMethods]).v) <= b

\* C11: decoding a method that contains an invokedynamic whose
\* InvokeDynamic entry carries bootstrap index b, in a class whose
\* BootstrapMethods table has at most b entries, reports
\* Error::InvalidBootstrapIndex(b) to the caller.
C11_InvalidBootstrapIndexReported ==
    (ipc = "done" /\ AtInvokedynamic /\ TableAtMost(BootstrapIndexAtCursor))
        => /\ iresult.res = "Err"
           /\ iresult.err.kind = "InvalidBootstrapIndex"
           /\ iresult.err.index = BootstrapIndexAtCursor

-----------------------------------------------------------------------------
(* The signature grammar (signature.rs).  A JavaType or ReferenceType is   *)
(* a node [kind, primitive, name, package, base, sub, elem]: kind "Base"   *)
(* is JavaType::Base(primitive); the other kinds are the variants of       *)
(* ReferenceType.  A ClassType has package, base (one SimpleClassType      *)
(* [name, type_arguments]) and sub; an ArrayType has elem (one node).  A   *)
(* TypeArgument is [variance, ty]: "Plus" or "Minus" with one node, or     *)
(* "Star" with none.                                                       *)

SigNode(kind) ==
    [kind |-> kind, primitive |-> "", name |-> <<>>, package |-> <<>>,
     base |-> <<>>, sub |-> <<>>, elem |-> <<>>]

\* nom's char(c)
StartsWith(input, c) == input # <<>> /\ input[1] = c

\* a-z, A-Z, 0-9 and `_`
IdentifierChars == (97..122) \cup (65..90) \cup (48..57) \cup {95}

\* nom's is_a(chars): the length of the longest prefix made of chars
RECURSIVE IsA(_, _)
IsA(chars, input) ==
    IF input = <<>> \/ input[1] \notin chars THEN 0 ELSE 1 + IsA(chars, Tail(input))

identifier(input) ==
    LET Taken(n) ==
            IF n = 0 THEN ParseFail(input)
            ELSE ParseOk(SubSeq(input, 1, n), DropN(input, n))
    IN  Taken(IsA(IdentifierChars, input))

BaseType_parse(input) ==
    IF input # <<>> /\ input[1] \in DOMAIN PrimitiveOf
    THEN ParseOk([SigNode("Base") EXCEPT !.primitive = PrimitiveOf[input[1]]], Tail(input))
    ELSE ParseFail(input)

RECURSIVE ReferenceType_parse(_)
RECURSIVE ClassType_parse(_)
RECURSIVE SimpleClassType_parse(_)
RECURSIVE Many0TypeArgument(_)
RECURSIVE Many0Package(_)
RECURSIVE Many0Sub(_)

\* alt((ReferenceType::parse, BaseType::parse))
JavaType_parse(input) ==
    LET Else(r) == IF r.ok THEN r ELSE BaseType_parse(input)
    IN  Else(ReferenceType_parse(input))

ReferenceType_parse(input) ==
    LET Array(x) ==
            IF x.ok THEN ParseOk([SigNode("ArrayType") EXCEPT !.elem = <<x.v>>], x.rest)
            ELSE ParseFail(input)
        Variable(id) ==
            IF id.ok /\ StartsWith(id.rest, 59)
            THEN ParseOk([SigNode("TypeVariable") EXCEPT !.name = id.v], Tail(id.rest))
            ELSE ParseFail(input)
        Class(c) ==
            IF c.ok THEN c
            ELSE IF StartsWith(input, 84)   \* delimited(char('T'), identifier, char(';'))
            THEN Variable(identifier(Tail(input)))
            ELSE IF StartsWith(input, 91)   \* preceded(char('['), JavaType::parse)
            THEN Array(JavaType_parse(Tail(input)))
            ELSE ParseFail(input)
    IN  IF HasPrefix(input, TagJavaLangString)
        THEN ParseOk(SigNode("JavaString"), DropN(input, Len(TagJavaLangString)))
        ELSE IF HasPrefix(input, TagJavaLangClass)
        THEN ParseOk(SigNode("JavaClass"), DropN(input, Len(TagJavaLangClass)))
        ELSE Class(ClassType_parse(input))

\* alt((`+` ReferenceType, `-` ReferenceType, `*`))
TypeArgument_parse(input) ==
    LET Of(variance, x) ==
            IF x.ok THEN ParseOk([variance |-> variance, ty |-> <<x.v>>], x.rest)
            ELSE ParseFail(input)
    IN  IF StartsWith(input, 43) THEN Of("Plus", ReferenceType_parse(Tail(input)))
        ELSE IF StartsWith(input, 45) THEN Of("Minus", ReferenceType_parse(Tail(input)))
        ELSE IF StartsWith(input, 42) THEN ParseOk([variance |-> "Star", ty |-> <<>>], Tail(input))
        ELSE ParseFail(input)

Many0TypeArgument(input) ==
    LET Cons(v, more) == ParseOk(<<v>> \o more.v, more.rest)
        After(x) == IF ~x.ok THEN ParseOk(<<>>, input)
                    ELSE Cons(x.v, Many0TypeArgument(x.rest))
    IN  After(TypeArgument_parse(input))

\* nom's many1(TypeArgument::parse)
Many1TypeArgument(input) ==
    LET AtLeastOne(r) == IF r.v = <<>> THEN ParseFail(input) ELSE r
    IN  AtLeastOne(Many0TypeArgument(input))

\* tuple((identifier, opt(delimited(char('<'), many1(..), char('>')))))
SimpleClassType_parse(input) ==
    LET Plain(id) == ParseOk([name |-> id.v, type_arguments |-> <<>>], id.rest)
        Arguments(id, args) ==
            IF args.ok /\ StartsWith(args.rest, 62)
            THEN ParseOk([name |-> id.v, type_arguments |-> args.v], Tail(args.rest))
            ELSE Plain(id)
        Named(id) ==
            IF ~id.ok THEN ParseFail(input)
            ELSE IF StartsWith(id.rest, 60) THEN Arguments(id, Many1TypeArgument(Tail(id.rest)))
            ELSE Plain(id)
    IN  Named(identifier(input))

\* many0(terminated(identifier, char('/')))
Many0Package(input) ==
    LET Cons(v, more) == ParseOk(<<v>> \o more.v, more.rest)
        After(id) == IF id.ok /\ StartsWith(id.rest, 47)
                     THEN Cons(id.v, Many0Package(Tail(id.rest)))
                     ELSE ParseOk(<<>>, input)
    IN  After(identifier(input))

\* many0(preceded(char('.'), SimpleClassType::parse))
Many0Sub(input) ==
    LET Cons(v, more) == ParseOk(<<v>> \o more.v, more.rest)
        After(x) == IF x.ok THEN Cons(x.v, Many0Sub(x.rest)) ELSE ParseOk(<<>>, input)
    IN  IF StartsWith(input, 46) THEN After(SimpleClassType_parse(Tail(input)))
        ELSE ParseOk(<<>>, input)

\* delimited(char('L'), tuple((package, base, sub)), char(';'))
ClassType_parse(input) ==
    LET End(package, base, sub) ==
            IF StartsWith(sub.rest, 59)
            THEN ParseOk([SigNode("ClassType") EXCEPT !.package = package.v,
                              !.base = <<base.v>>, !.sub = sub.v],
                         Tail(sub.rest))
            ELSE ParseFail(input)
        Base(package, base) ==
            IF ~base.ok THEN ParseFail(input)
            ELSE End(package, base, Many0Sub(base.rest))
        Package(package) == Base(package, SimpleClassType_parse(package.rest))
    IN  IF StartsWith(input, 76) THEN Package(Many0Package(Tail(input)))
        ELSE ParseFail(input)

-----------------------------------------------------------------------------
(* The callers of the grammars: the descriptor and signature accessors of  *)
(* a field or method record.                                               *)

\* the conversion of a nom error into Error::NomError, applied by `?`
FromParse(r) == IF r.ok THEN Ok(r.v) ELSE Err(NomError)

\* Field::descriptor: the remaining input `_input` is dropped
Field_descriptor(raw, class) ==
    LET Described(raw_descriptor) ==
            IF raw_descriptor.res # "Ok" THEN raw_descriptor
            ELSE FromParse(TypeDescriptor_parse(raw_descriptor.val))
    IN  Described(get_as_string_impl("Utf8", raw.descriptor_index, class.constant_pool))

\* Method::descriptor
Method_descriptor(raw, class) ==
    LET Described(raw_descriptor) ==
            IF raw_descriptor.res # "Ok" THEN raw_descriptor
            ELSE FromParse(MethodDescriptor_parse(raw_descriptor.val))
    IN  Described(get_as_string_impl("Utf8", raw.descriptor_index, class.constant_pool))

\* "Signature"
NameSignature == <<83, 105, 103, 110, 97, 116, 117, 114, 101>>

\* Signature::get_field: ReferenceType::parse of the string at
\* signature_index, `.1` of the result
Signature_get_field(signature_index, class) ==
    LET Signed(s) ==
            IF s.res # "Ok" THEN s ELSE FromParse(ReferenceType_parse(s.val))
    IN  Signed(get_as_string_impl("Utf8", signature_index, class.constant_pool))

\* Field::signature: the Signature attribute of the record, read from the
\* start of its payload, then get_field
Field_signature(raw, class) ==
    LET Value(v) == IF v.res = "Ok" THEN Ok(Some(v.val)) ELSE v
        Read(signature_index) ==
            IF ~signature_index.ok THEN Err(BinrwError(BinrwIo))
            ELSE Value(Signature_get_field(signature_index.v, class))
    IN  IF NameSignature \notin DOMAIN raw.attributes THEN Ok(None)
        ELSE Read(ReadU16(raw.attributes[NameSignature], 0))

-----------------------------------------------------------------------------
(* The grammars applied to texts.  A text is written from a sample         *)
(* [form, tys, ret, variance, trail]: a field descriptor (the type         *)
(* tys[1]), a method descriptor (parameters tys, return type ret, NoType   *)
(* for `V`), a class type signature Ljava/util/List<..>; (type argument    *)
(* tys[1] with the given variance) or a type variable signature, each      *)
(* followed by the characters of trail.  The text is the Utf8 entry #1 of  *)
(* a class, and descriptor_index and the Signature attribute of the        *)
(* record point at it.                                                     *)

MaxDims == 2
MaxParams == 2

LetterOf(base) == CHOOSE c \in DOMAIN PrimitiveOf : PrimitiveOf[c] = base

EncodeTy(ty) ==
    [k \in 1..ty.dims |-> 91] \o
    (IF ty.base = "String" THEN TagJavaLangString
     ELSE IF ty.base = "Class" THEN TagJavaLangClass
     ELSE IF ty.base = "ClassName" THEN <<76>> \o ty.name \o <<59>>
     ELSE <<LetterOf(ty.base)>>)

RECURSIVE EncodeTys(_)
EncodeTys(tys) == IF tys = <<>> THEN <<>> ELSE EncodeTy(Head(tys)) \o EncodeTys(Tail(tys))

\* "A", "a/B", "java/util/List", "T"
StrAB == <<97, 47, 66>>
StrJavaUtilList == <<106, 97, 118, 97, 47, 117, 116, 105, 108, 47, 76, 105, 115, 116>>
StrT == <<84>>

SampleTys ==
    {Ty(b, <<>>, d) : b \in {PrimitiveOf[c] : c \in DOMAIN PrimitiveOf} \cup {"String", "Class"},
                      d \in 0..MaxDims}
    \cup {Ty("ClassName", n, d) : n \in {StrA, StrAB}, d \in 0..1}

SampleParamTys ==
    {Ty("Int", <<>>, 0), Ty("Int", <<>>, 1), Ty("Long", <<>>, 0), Ty("String", <<>>, 0),
     Ty("ClassName", StrA, 0)}

\* nothing, "X", "I"
SampleTrails == {<<>>, <<88>>, <<73>>}

Variances == {"Absent", "Invariant", "Plus", "Minus", "Star"}

TextSample(form, tys, ret, variance, trail) ==
    [form |-> form, tys |-> tys, ret |-> ret, variance |-> variance, trail |-> trail]

SampleTexts ==
    {TextSample("field", <<ty>>, NoType, "Absent", trail) :
        ty \in SampleTys, trail \in SampleTrails}
    \cup {TextSample("method", tys, ret, "Absent", trail) :
            tys \in SeqsUpTo(SampleParamTys, MaxParams),
            ret \in SampleParamTys \cup {NoType}, trail \in {<<>>, <<88>>}}
    \cup {TextSample("class_type", <<ty>>, NoType, variance, <<>>) :
            ty \in {Ty("String", <<>>, 0), Ty("ClassName", StrA, 0)}, variance \in Variances}
    \cup {TextSample("type_variable", <<>>, NoType, "Absent", trail) :
            trail \in {<<>>, <<88>>}}

\* `<`, the variance marker and type argument, `>`
EncodeTypeArguments(sm) ==
    CASE sm.variance = "Absent" -> <<>>
      [] sm.variance = "Invariant" -> <<60>> \o EncodeTy(sm.tys[1]) \o <<62>>
      [] sm.variance = "Plus" -> <<60, 43>> \o EncodeTy(sm.tys[1]) \o <<62>>
      [] sm.variance = "Minus" -> <<60, 45>> \o EncodeTy(sm.tys[1]) \o <<62>>
      [] sm.variance = "Star" -> <<60, 42, 62>>

TextOf(sm) ==
    (CASE sm.form = "field" -> EncodeTy(sm.tys[1])
       [] sm.form = "method" ->
            <<40>> \o EncodeTys(sm.tys) \o <<41>>
            \o (IF sm.ret = NoType THEN <<86>> ELSE EncodeTy(sm.ret))
       [] sm.form = "class_type" ->
            <<76>> \o StrJavaUtilList \o EncodeTypeArguments(sm) \o <<59>>
       [] sm.form = "type_variable" -> <<84>> \o StrT \o <<59>>)
    \o sm.trail

\* the record whose descriptor and Signature attribute name the Utf8 entry #1
TextMember ==
    [name_index |-> 1, descriptor_index |-> 1,
     attributes |-> InsertAttribute(NoAttributes, NameSignature, <<0, 1>>)]

InitText ==
    /\ overflow_checks = FALSE
    /\ InitPool
    /\ sample \in SampleTexts
    /\ given = TextOf(sample)
    /\ cf = [NoClass EXCEPT !.constant_pool = <<Item("Utf8", 0, 0, given)>>]
    /\ code = <<>> /\ cursor = 0 /\ res = <<>> /\ starts = <<>>
    /\ ipc = "idle" /\ iresult = Ok(<<>>)
    /\ applied = NoApplied
    /\ member = TextMember /\ calls = <<>>

Apply(op, r) ==
    /\ applied = NoApplied
    /\ applied' = [op |-> op, result |-> r]
    /\ UNCHANGED <<overflow_checks, poolVars, codeVars, sample, given, accessVars>>

FieldDescriptor == Apply("Field::descriptor", Field_descriptor(member, cf))

MethodDescriptor == Apply("Method::descriptor", Method_descriptor(member, cf))

FieldSignature == Apply("Field::signature", Field_signature(member, cf))

NextText ==
    \/ FieldDescriptor
    \/ MethodDescriptor
    \/ FieldSignature

SpecText == InitText /\ [][NextText]_vars

-----------------------------------------------------------------------------
(* Properties of the grammars.                                             *)

\* the text is `L`, a non-empty name without `;`, and `;`
IsReferenceText(s) ==
    /\ Len(s) >= 3 /\ s[1] = 76 /\ s[Len(s)] = 59
    /\ \A k \in 2..(Len(s) - 1) : s[k] # 59

\* C14: in the descriptor grammar `Ljava/lang/String;` parses to String
\* and `Ljava/lang/Class;` to Class, never to ClassName, while every other
\* `L<name>;` with a non-empty name without `;` parses to ClassName(name).
C14_FastPathsFirst ==
    applied.op = "Field::descriptor" =>
        /\ given = TagJavaLangString => applied.result = Ok(Ty("String", <<>>, 0))
        /\ given = TagJavaLangClass => applied.result = Ok(Ty("Class", <<>>, 0))
        /\ (IsReferenceText(given) /\ given \notin {TagJavaLangString, TagJavaLangClass})
              => applied.result = Ok(Ty("ClassName", SubSeq(given, 2, Len(given) - 1), 0))

C14_Witness ==
    /\ applied.op = "Field::descriptor"
    /\ given = TagJavaLangString
    /\ applied.result.res = "Ok"
    /\ applied.result.val.base = "String"

\* "[[I" and "([I)V"
TextArrayArrayInt == <<91, 91, 73>>
TextMethodArrayInt == <<40, 91, 73, 41, 86>>

\* C15: descriptor parsing agrees with the grammar the texts are written
\* in: a field descriptor parses to the type it was written from (each
\* primitive letter to its primitive, n leading `[` to n Array nodes), and
\* a method descriptor to its parameter types in order and its return
\* type, absent for `V`.
C15_AgreesWithGrammar ==
    /\ (applied.op = "Field::descriptor" /\ sample.form = "field" /\ sample.trail = <<>>)
          => applied.result = Ok(sample.tys[1])
    /\ (applied.op = "Method::descriptor" /\ sample.form = "method" /\ sample.trail = <<>>)
          => applied.result = Ok([param_tys |-> sample.tys, return_ty |-> sample.ret])
    /\ (applied.op = "Field::descriptor" /\ given = TextArrayArrayInt)
          => applied.result = Ok(Ty("Int", <<>>, 2))
    /\ (applied.op = "Method::descriptor" /\ given = TextMethodArrayInt)
          => applied.result = Ok([param_tys |-> <<Ty("Int", <<>>, 1)>>, return_ty |-> NoType])

C15_Witness ==
    /\ applied.op = "Method::descriptor"
    /\ sample.form = "method" /\ sample.trail = <<>>
    /\ Len(sample.tys) = 2 /\ sample.tys[1] # sample.tys[2] /\ sample.ret # NoType
    /\ applied.result.res = "Ok"
    /\ applied.result.val.param_tys = sample.tys

\* the caller a text of each form is meant for
CallerOf(form) ==
    CASE form = "field" -> "Field::descriptor"
      [] form = "method" -> "Method::descriptor"
      [] OTHER -> "Field::signature"

\* C16: a descriptor or signature that has a grammatical prefix followed
\* by unconsumed trailing characters is reported by its caller as the
\* text-processing error, and is not accepted as the parse of its prefix.
C16_TrailingInputRejected ==
    (applied.op = CallerOf(sample.form) /\ sample.trail # <<>>)
        => /\ applied.result.res = "Err"
           /\ applied.result.err.kind = "NomError"

\* "java", "util", "List"
StrJava == <<106, 97, 118, 97>>
StrUtil == <<117, 116, 105, 108>>
StrList == <<76, 105, 115, 116>>

\* C17: `Ljava/util/List<Ljava/lang/String;>;` parses to a ClassType with
\* package [java, util], base name `List` and exactly one type argument,
\* the String reference type without a variance marker.
C17_InvariantTypeArgument ==
    (applied.op = "Field::signature" /\ sample.form = "class_type"
        /\ sample.variance = "Invariant" /\ sample.tys[1].base = "String")
        => /\ applied.result.res = "Ok"
           /\ applied.result.val.some
           /\ applied.result.val.v.kind = "ClassType"
           /\ applied.result.val.v.package = <<StrJava, StrUtil>>
           /\ Len(applied.result.val.v.base) = 1
           /\ applied.result.val.v.base[1].name = StrList
           /\ Len(applied.result.val.v.base[1].type_arguments) = 1
           /\ applied.result.val.v.base[1].type_arguments[1].ty = <<SigNode("JavaString")>>

-----------------------------------------------------------------------------
(* StackMapTable frames (attributes.rs).  A frame read returns             *)
(* [res, val, err, pos]; a frame is [kind, offset_delta, locals_to_remove, *)
(* locals, stack].                                                         *)

FrameOk(v, p) == [res |-> "Ok", val |-> v, err |-> NoError, pos |-> p]
FrameErr(e, p) == [res |-> "Err", val |-> <<>>, err |-> e, pos |-> p]

\* the variants of VerificationTypeInfo without a payload, by magic
VerificationTag ==
    [m \in 0..6 |->
        CASE m = 0 -> "Top" [] m = 1 -> "Integer" [] m = 2 -> "Float"
          [] m = 3 -> "Double" [] m = 4 -> "Long" [] m = 5 -> "Null"
          [] m = 6 -> "UninitializedThis"]

VerificationTypeInfo_read(s, p) ==
    LET Indexed(tag, x) ==
            IF x.ok THEN FrameOk([tag |-> tag, index |-> x.v], x.pos)
            ELSE FrameErr(BinrwEnumErrors(BinrwIo), p)
        Variant(magic) ==
            IF ~magic.ok THEN FrameErr(BinrwEnumErrors(BinrwIo), p)
            ELSE IF magic.v \in DOMAIN VerificationTag
            THEN FrameOk([tag |-> VerificationTag[magic.v], index |-> 0], magic.pos)
            ELSE IF magic.v = 7 THEN Indexed("Object", ReadU16(s, magic.pos))
            ELSE IF magic.v = 8 THEN Indexed("Uninitialized", ReadU16(s, magic.pos))
            ELSE FrameErr(BinrwEnumErrors(BinrwBadMagic), p)
    IN  Variant(ReadU8(s, p))

\* <Vec<VerificationTypeInfo>>::read_options with count
RECURSIVE VerificationTypeInfos_read(_, _, _)
VerificationTypeInfos_read(s, p, count) ==
    LET Cons(x, more) ==
            IF more.res # "Ok" THEN more ELSE FrameOk(<<x.val>> \o more.val, more.pos)
        After(x) ==
            IF x.res # "Ok" THEN x
            ELSE Cons(x, VerificationTypeInfos_read(s, x.pos, count - 1))
    IN  IF count = 0 THEN FrameOk(<<>>, p)
        ELSE After(VerificationTypeInfo_read(s, p))

\* an arm selection whose ranges are each one too wide at the top
StackMapFrame_arm_Shifted(magic) ==
    IF magic <= 64 THEN "0..=63"
    ELSE IF magic <= 128 THEN "64..=127"
    ELSE IF magic <= 247 THEN "128..=246"
    ELSE IF magic <= 250 THEN "248..=250"
    ELSE IF magic = 251 THEN "251"
    ELSE IF magic <= 254 THEN "252..=254"
    ELSE "255"

\* the arm of `match magic` that is taken
StackMapFrame_arm(magic) ==
    IF magic <= 63 THEN "0..=63"
    ELSE IF magic <= 127 THEN "64..=127"
    ELSE IF magic <= 246 THEN "128..=246"
    ELSE IF magic = 247 THEN "247"
    ELSE IF magic <= 250 THEN "248..=250"
    ELSE IF magic = 251 THEN "251"
    ELSE IF magic <= 254 THEN "252..=254"
    ELSE "255"

Frame(kind, offset_delta, locals_to_remove, locals, stack) ==
    [kind |-> kind, offset_delta |-> offset_delta, locals_to_remove |-> locals_to_remove,
     locals |-> locals, stack |-> stack]

StackMapFrame_read(s, p) ==
    LET One(offset_delta, stack) ==
            IF stack.res # "Ok" THEN stack
            ELSE FrameOk(Frame("SameLocals1StackItemFrame", offset_delta, 0, <<>>,
                               <<stack.val>>), stack.pos)
        OneExtended(offset_delta) ==
            IF ~offset_delta.ok THEN FrameErr(BinrwIo, p)
            ELSE One(offset_delta.v, VerificationTypeInfo_read(s, offset_delta.pos))
        Chop(magic, offset_delta) ==
            IF ~offset_delta.ok THEN FrameErr(BinrwIo, p)
            ELSE FrameOk(Frame("ChopFrame", offset_delta.v, 251 - magic, <<>>, <<>>),
                         offset_delta.pos)
        SameExtended(offset_delta) ==
            IF ~offset_delta.ok THEN FrameErr(BinrwIo, p)
            ELSE FrameOk(Frame("SameFrame", offset_delta.v, 0, <<>>, <<>>), offset_delta.pos)
        Appended(offset_delta, locals) ==
            IF locals.res # "Ok" THEN locals
            ELSE FrameOk(Frame("AppendFrame", offset_delta.v, 0, locals.val, <<>>), locals.pos)
        AppendLocals(k, offset_delta) ==
            IF ~offset_delta.ok THEN FrameErr(BinrwIo, p)
            ELSE Appended(offset_delta, VerificationTypeInfos_read(s, offset_delta.pos, k))
        FullStack(offset_delta, locals, stack) ==
            IF stack.res # "Ok" THEN stack
            ELSE FrameOk(Frame("FullFrame", offset_delta.v, 0, locals.val, stack.val), stack.pos)
        FullNumStack(offset_delta, locals, num_stack) ==
            IF ~num_stack.ok THEN FrameErr(BinrwIo, p)
            ELSE FullStack(offset_delta, locals,
                           VerificationTypeInfos_read(s, num_stack.pos, num_stack.v))
        FullLocals(offset_delta, locals) ==
            IF locals.res # "Ok" THEN locals
            ELSE FullNumStack(offset_delta, locals, ReadU16(s, locals.pos))
        FullNumLocals(offset_delta, num_locals) ==
            IF ~num_locals.ok THEN FrameErr(BinrwIo, p)
            ELSE FullLocals(offset_delta,
                            VerificationTypeInfos_read(s, num_locals.pos, num_locals.v))
        Full(offset_delta) ==
            IF ~offset_delta.ok THEN FrameErr(BinrwIo, p)
            ELSE FullNumLocals(offset_delta, ReadU16(s, offset_delta.pos))
        Arm(arm, magic) ==
            CASE arm = "0..=63" -> FrameOk(Frame("SameFrame", magic, 0, <<>>, <<>>), p + 1)
              [] arm = "64..=127" -> One(magic - 64, VerificationTypeInfo_read(s, p + 1))
              [] arm = "128..=246" -> FrameErr(BinrwBadMagic, p)
              [] arm = "247" -> OneExtended(ReadU16(s, p + 1))
              [] arm = "248..=250" -> Chop(magic, ReadU16(s, p + 1))
              [] arm = "251" -> SameExtended(ReadU16(s, p + 1))
              [] arm = "252..=254" -> AppendLocals(magic - 251, ReadU16(s, p + 1))
              [] arm = "255" -> Full(ReadU16(s, p + 1))
        Matched(magic) ==
            IF ~magic.ok THEN FrameErr(BinrwIo, p)
            ELSE Arm(StackMapFrame_arm(magic.v), magic.v)
    IN  Matched(ReadU8(s, p))

-----------------------------------------------------------------------------
(* StackMapFrame::read_options applied to frames of every first byte.  A   *)
(* frame is written from a sample [form, tag, cut]: the byte tag, then     *)
(* what the frame kind of that byte is followed by, the last cut bytes     *)
(* left out.                                                               *)

MaxFrameCut == 2

\* offset_delta 261; the verification types Integer, Object #2, Long
FrameOffset == <<1, 5>>
FrameTypes == <<(<<1>>), (<<7, 0, 2>>), (<<4>>)>>

RECURSIVE Flatten(_)
Flatten(ss) == IF ss = <<>> THEN <<>> ELSE Head(ss) \o Flatten(Tail(ss))

\* what follows the first byte in a frame of that byte
FrameTail(tag) ==
    IF tag <= 63 THEN <<>>
    ELSE IF tag <= 127 THEN FrameTypes[2]
    ELSE IF tag <= 246 THEN FrameOffset
    ELSE IF tag = 247 THEN FrameOffset \o FrameTypes[2]
    ELSE IF tag <= 251 THEN FrameOffset
    ELSE IF tag <= 254 THEN FrameOffset \o Flatten(SubSeq(FrameTypes, 1, tag - 251))
    ELSE FrameOffset \o <<0, 2>> \o FrameTypes[1] \o FrameTypes[2] \o <<0, 1>> \o FrameTypes[3]

FrameBytes(tag, cut) ==
    <<tag>> \o SubSeq(FrameTail(tag), 1,
                      IF cut > Len(FrameTail(tag)) THEN 0 ELSE Len(FrameTail(tag)) - cut)

InitFrame ==
    /\ overflow_checks = FALSE
    /\ InitPool
    /\ InitCode
    /\ InitAccess
    /\ \E tag \in 0..255, cut \in 0..MaxFrameCut :
          /\ sample = [form |-> "frame", tag |-> tag, cut |-> cut]
          /\ given = FrameBytes(tag, cut)
    /\ applied = NoApplied

ReadFrame ==
    \E r \in {StackMapFrame_read(given, 0)} :
        Apply("StackMapFrame::read",
              IF r.res = "Ok" THEN Ok(r.val) ELSE Err(BinrwError(r.err)))

NextFrame == ReadFrame

SpecFrame == InitFrame /\ [][NextFrame]_vars

\* the frame was written whole
WholeFrame == sample.cut = 0 \/ FrameTail(sample.tag) = <<>>

\* C13: StackMapTable frame decoding is a total, non-overlapping function
\* of the first byte t: 0-63 SameFrame with offset_delta t; 64-127
\* SameLocals1StackItem with offset_delta t - 64; 128-246 a decode error;
\* 247 SameLocals1StackItem with an explicit 16-bit offset; 248-250
\* ChopFrame removing 251 - t locals; 251 SameFrame with an explicit
\* offset; 252-254 AppendFrame with exactly t - 251 locals; 255 FullFrame
\* with explicit lists of locals and stack items.
C13_FrameTagPartition ==
    applied.op = "StackMapFrame::read" =>
        LET t == sample.tag
            r == applied.result
            f == applied.result.val
        IN  /\ t \in 128..246 => r.res = "Err" /\ r.err.binrw = "BadMagic"
            /\ (t \notin 128..246 /\ WholeFrame) => r.res = "Ok"
            /\ r.res = "Ok" =>
                /\ t \in 0..63 => f = Frame("SameFrame", t, 0, <<>>, <<>>)
                /\ t \in 64..127 =>
                      f = Frame("SameLocals1StackItemFrame", t - 64, 0, <<>>,
                                <<[tag |-> "Object", index |-> 2]>>)
                /\ t = 247 =>
                      f = Frame("SameLocals1StackItemFrame", 261, 0, <<>>,
                                <<[tag |-> "Object", index |-> 2]>>)
                /\ t \in 248..250 => f = Frame("ChopFrame", 261, 251 - t, <<>>, <<>>)
                /\ t = 251 => f = Frame("SameFrame", 261, 0, <<>>, <<>>)
                /\ t \in 252..254 =>
                      /\ f.kind = "AppendFrame" /\ f.offset_delta = 261
                      /\ Len(f.locals) = t - 251 /\ f.stack = <<>>
                /\ t = 255 =>
                      /\ f.kind = "FullFrame" /\ f.offset_delta = 261
                      /\ f.locals = <<[tag |-> "Integer", index |-> 0],
                                      [tag |-> "Object", index |-> 2]>>
                      /\ f.stack = <<[tag |-> "Long", index |-> 0]>>

\* an AppendFrame at the top of its range, read whole
C13_Witness ==
    /\ applied.op = "StackMapFrame::read"
    /\ sample.tag = 254 /\ sample.cut = 0
    /\ applied.result.res = "Ok"
    /\ Len(applied.result.val.locals) = 3

-----------------------------------------------------------------------------
(* Attributes::read_options applied to attribute tables.  A table is       *)
(* written from a sample [form, entries, cut]: entries are                 *)
(* [name_index, info] in file order, and the last cut bytes are left out.  *)
(* The name indices point into AttributePool.                              *)

MaxAttributes == 3
MaxTableCut == 1

\* "X", a name no accessor knows
StrX == <<88>>

\* 1 Utf8 "Code"   2 Utf8 "X"   3 Class #1   4 Utf8 "X"
AttributePool ==
    << Item("Utf8", 0, 0, NameCode), Item("Utf8", 0, 0, StrX),
       Item("Class", 1, 0, <<>>), Item("Utf8", 0, 0, StrX) >>

SampleInfos == {<<>>, <<7>>, <<1, 2>>}

SampleAttributes ==
    {[name_index |-> n, info |-> b] : n \in 0..Len(AttributePool), b \in SampleInfos}

RECURSIVE EncodeAttributes(_)
EncodeAttributes(es) ==
    IF es = <<>> THEN <<>>
    ELSE U16Bytes(Head(es).name_index) \o <<0, 0>> \o U16Bytes(Len(Head(es).info))
         \o Head(es).info \o EncodeAttributes(Tail(es))

TableBytes(es, cut) ==
    LET b == U16Bytes(Len(es)) \o EncodeAttributes(es)
    IN  SubSeq(b, 1, Len(b) - cut)

InitTable ==
    /\ overflow_checks = FALSE
    /\ InitPool
    /\ cf = [NoClass EXCEPT !.constant_pool = AttributePool]
    /\ code = <<>> /\ cursor = 0 /\ res = <<>> /\ starts = <<>>
    /\ ipc = "idle" /\ iresult = Ok(<<>>)
    /\ InitAccess
    /\ \E es \in SeqsUpTo(SampleAttributes, MaxAttributes), cut \in 0..MaxTableCut :
          /\ sample = [form |-> "table", entries |-> es, cut |-> cut]
          /\ given = TableBytes(es, cut)
    /\ applied = NoApplied

ReadAttributes ==
    \E r \in {Attributes_read_options(given, 0, cf.constant_pool)} :
        Apply("Attributes::read",
              IF r.res = "Ok" THEN Ok(r.val)
              ELSE IF r.res = "Panic" THEN Panic
              ELSE Err(BinrwError(BinrwIo)))

NextTable == ReadAttributes

SpecTable == InitTable /\ [][NextTable]_vars

\* every entry of the table has a name: its index designates a Utf8 entry
NamedTable ==
    \A k \in 1..Len(sample.entries) :
        /\ InPool(sample.entries[k].name_index, cf.constant_pool)
        /\ cf.constant_pool[sample.entries[k].name_index].tag = "Utf8"

NameOfEntry(k) == cf.constant_pool[sample.entries[k].name_index].s

\* C19: decoding an attribute table never fails because a name is unknown
\* or unsupported: a table written whole decodes, and for every
\* (name, payload) pair whose name occurs once in it the decoded mapping
\* has that name mapped to exactly the payload bytes.
C19_UnknownNamesPreserved ==
    (applied.op = "Attributes::read" /\ sample.cut = 0 /\ NamedTable) =>
        /\ applied.result.res = "Ok"
        /\ DOMAIN applied.result.val = {NameOfEntry(k) : k \in 1..Len(sample.entries)}
        /\ \A k \in 1..Len(sample.entries) :
              (\A j \in 1..Len(sample.entries) : NameOfEntry(j) = NameOfEntry(k) => j = k)
                  => applied.result.val[NameOfEntry(k)] = sample.entries[k].info

\* a table with the unknown name X once, between two attributes named Code
C19_Witness ==
    /\ applied.op = "Attributes::read" /\ sample.cut = 0
    /\ Len(sample.entries) = 3
    /\ sample.entries[1].name_index = 1 /\ sample.entries[3].name_index = 1
    /\ sample.entries[2] = [name_index |-> 2, info |-> <<1, 2>>]
    /\ applied.result.res = "Ok"
    /\ applied.result.val[StrX] = <<1, 2>>

-----------------------------------------------------------------------------
(* The typed attribute decoders and the accessors that reach them          *)
(* (attributes.rs, method.rs, field.rs).                                   *)

\* "Exceptions", "ConstantValue", "StackMapTable"
NameExceptions == <<69, 120, 99, 101, 112, 116, 105, 111, 110, 115>>
NameConstantValue == <<67, 111, 110, 115, 116, 97, 110, 116, 86, 97, 108, 117, 101>>
NameStackMapTable == <<83, 116, 97, 99, 107, 77, 97, 112, 84, 97, 98, 108, 101>>

\* an optional reference that keeps every raw index, 0 too
OptionalIndex_Kept(x) == <<x>>

\* #[br(map = |x| if x.0 == 0 { None } else { Some(x) })]: None is <<>>,
\* Some(x) is <<x>>
OptionalIndex(x) == IF x = 0 THEN <<>> ELSE <<x>>

\* count Exception entries: start_pc, end_pc, handler_pc and catch_type,
\* which is None (<<>>) for the index 0
ExceptionTable_read(s, p, count) ==
    IF p + 8 * count <= Len(s)
    THEN ReadOk([k \in 1..count |->
                    [start_pc |-> ReadU16(s, p + 8 * k - 8).v,
                     end_pc |-> ReadU16(s, p + 8 * k - 6).v,
                     handler_pc |-> ReadU16(s, p + 8 * k - 4).v,
                     catch_type |-> OptionalIndex(ReadU16(s, p + 8 * k - 2).v)]],
                p + 8 * count)
    ELSE ReadFail(p)

\* Code::read_options on the payload s of a Code attribute
Code_read(s, class) ==
    LET Failed == Err(BinrwError(BinrwIo))
        Built(max_stack, max_locals, bytes, exception_table, attributes) ==
            IF attributes.res = "Panic" THEN Panic
            ELSE IF attributes.res # "Ok" THEN Failed
            ELSE Ok([max_stack |-> max_stack.v, max_locals |-> max_locals.v,
                     code |-> bytes.v, exception_table |-> exception_table.v,
                     attributes |-> attributes.val])
        Table(max_stack, max_locals, bytes, exception_table) ==
            IF ~exception_table.ok THEN Failed
            ELSE Built(max_stack, max_locals, bytes, exception_table,
                       Attributes_read_options(s, exception_table.pos, class.constant_pool))
        TableLength(max_stack, max_locals, bytes, exception_table_length) ==
            IF ~exception_table_length.ok THEN Failed
            ELSE Table(max_stack, max_locals, bytes,
                       ExceptionTable_read(s, exception_table_length.pos,
                                           exception_table_length.v))
        Bytes(max_stack, max_locals, bytes) ==
            IF ~bytes.ok THEN Failed
            ELSE TableLength(max_stack, max_locals, bytes, ReadU16(s, bytes.pos))
        CodeLength(max_stack, max_locals, code_length) ==
            IF ~code_length.ok THEN Failed
            ELSE Bytes(max_stack, max_locals, ReadBytes(s, code_length.pos, code_length.v))
        MaxLocals(max_stack, max_locals) ==
            IF ~max_locals.ok THEN Failed
            ELSE CodeLength(max_stack, max_locals, ReadU32(s, max_locals.pos))
        MaxStack(max_stack) ==
            IF ~max_stack.ok THEN Failed
            ELSE MaxLocals(max_stack, ReadU16(s, max_stack.pos))
    IN  MaxStack(ReadU16(s, 0))

\* Exceptions: number_of_exceptions, then that many class indices
Exceptions_read(s) ==
    LET Table(t) == IF t.ok THEN Ok([exception_index_table |-> t.v])
                    ELSE Err(BinrwError(BinrwIo))
        Counted(n) == IF ~n.ok THEN Err(BinrwError(BinrwIo))
                      ELSE Table(ReadU16s(s, n.pos, n.v))
    IN  Counted(ReadU16(s, 0))

\* ConstantValue::read_options
ConstantValue_read(s) ==
    LET Indexed(x) == IF x.ok THEN Ok([constantvalue_index |-> x.v])
                      ELSE Err(BinrwError(BinrwIo))
    IN  Indexed(ReadU16(s, 0))

RECURSIVE StackMapFrames_read(_, _, _)
StackMapFrames_read(s, p, count) ==
    LET Cons(x, more) ==
            IF more.res # "Ok" THEN more ELSE FrameOk(<<x.val>> \o more.val, more.pos)
        After(x) ==
            IF x.res # "Ok" THEN x
            ELSE Cons(x, StackMapFrames_read(s, x.pos, count - 1))
    IN  IF count = 0 THEN FrameOk(<<>>, p)
        ELSE After(StackMapFrame_read(s, p))

\* StackMapTable: number_of_entries, then that many frames
StackMapTable_read(s) ==
    LET Table(t) == IF t.res = "Ok" THEN Ok([entries |-> t.val])
                    ELSE Err(BinrwError(t.err))
        Counted(n) == IF ~n.ok THEN Err(BinrwError(BinrwIo))
                      ELSE Table(StackMapFrames_read(s, n.pos, n.v))
    IN  Counted(ReadU16(s, 0))

\* the shape shared by Method::code, Method::exceptions,
\* Field::constant_value and attribute!: look the name up, decode the
\* payload from its start with read, Ok(None) when the name is absent
AttributeValue(v) == IF v.res = "Ok" THEN Ok(Some(v.val)) ELSE v

Method_code(raw, class) ==
    IF NameCode \notin DOMAIN raw.attributes THEN Ok(None)
    ELSE AttributeValue(Code_read(raw.attributes[NameCode], class))

Method_exceptions(raw, class) ==
    IF NameExceptions \notin DOMAIN raw.attributes THEN Ok(None)
    ELSE AttributeValue(Exceptions_read(raw.attributes[NameExceptions]))

Field_constant_value(raw, class) ==
    IF NameConstantValue \notin DOMAIN raw.attributes THEN Ok(None)
    ELSE AttributeValue(ConstantValue_read(raw.attributes[NameConstantValue]))

\* Code::stack_map_table, attribute!(StackMapTable, stack_map_table)
Code_stack_map_table(c, class) ==
    IF NameStackMapTable \notin DOMAIN c.attributes THEN Ok(None)
    ELSE AttributeValue(StackMapTable_read(c.attributes[NameStackMapTable]))

\* Code::instructions from the cursor position p on
RECURSIVE Code_instructions_from(_, _, _, _)
Code_instructions_from(bytes, p, class, checks) ==
    LET Cons(x, more) == IF more.res # "Ok" THEN more ELSE Ok(<<x.ins>> \o more.val)
        After(x) ==
            IF x.res = "Panic" THEN Panic
            ELSE IF x.res # "Ok" THEN Err(BinrwError(x.err))
            ELSE Cons(x, Code_instructions_from(bytes, x.pos, class, checks))
    IN  IF p >= Len(bytes) THEN Ok(<<>>)
        ELSE After(Instruction_read(bytes, p, class, checks))

Code_instructions(c, class, checks) == Code_instructions_from(c.code, 0, class, checks)

\* Method::identifier and ClassFile::this_class
Method_identifier(raw, class) ==
    get_as_string_impl("Utf8", raw.name_index, class.constant_pool)

ClassFile_this_class(class) ==
    get_as_string_impl("Class", class.this_class, class.constant_pool)

\* a replacement that leaves the string as it is
Replace_Nothing(s, from, to) == s

\* str::replace(from, to) for a character from and a string to
RECURSIVE Replace(_, _, _)
Replace(s, from, to) ==
    IF s = <<>> THEN <<>>
    ELSE (IF Head(s) = from THEN to ELSE <<Head(s)>>) \o Replace(Tail(s), from, to)

\* "Java_"
StrJavaPrefix == <<74, 97, 118, 97, 95>>

\* Method::jni_identifier: format!("Java_{}_{}", this_class with `/` and
\* `$` replaced by "_", identifier)
Method_jni_identifier(raw, class) ==
    LET Formatted(c, m) ==
            IF c.res # "Ok" THEN c
            ELSE IF m.res # "Ok" THEN m
            ELSE Ok(StrJavaPrefix \o Replace(Replace(c.val, 47, <<95>>), 36, <<95>>)
                    \o <<95>> \o m.val)
    IN  Formatted(ClassFile_this_class(class), Method_identifier(raw, class))

\* the lookup of bootstrap method idx through the class: bootstrap_methods()
\* and then BootstrapMethods::get(idx)
ClassFile_bootstrap_method(idx, class) ==
    LET Got(bootstrap_methods) ==
            IF bootstrap_methods.res # "Ok" THEN bootstrap_methods
            ELSE IF ~bootstrap_methods.val.some THEN Ok(None)
            ELSE BootstrapMethods_get(idx, bootstrap_methods.val.v, class)
    IN  Got(ClassFile_bootstrap_methods(class))

-----------------------------------------------------------------------------
(* The accessors called on a method or field record of a class, any        *)
(* number of times in any order.  Every accessor takes `&self`.            *)

MaxCalls == 3
MaxBootstrapIndex == 2

\* a record that gives its attributes away when an accessor is called
SharedBorrow_Consumed(record) == [record EXCEPT !.attributes = NoAttributes]

\* the record after a call of an accessor, which borrows it as `&self`
SharedBorrow(record) == record

\* "com/example/Bar$Baz", "foo", "f$", "TT;"
StrBarBaz ==
    <<99, 111, 109, 47, 101, 120, 97, 109, 112, 108, 101, 47, 66, 97, 114, 36, 66, 97, 122>>
StrFoo == <<102, 111, 111>>
StrFDollar == <<102, 36>>
StrTypeVariable == <<84, 84, 59>>

\*  1 Utf8 class name    2 Class #1            3 Utf8 method name
\*  4 Utf8 "()V"         5 Utf8 "StackMapTable" 6 Utf8 "TT;"
\*  7 Integer 7          8 NameAndType #3:#4   9 Methodref #2.#8
\* 10 MethodHandle 6 #9
AccessPool(class_name, method_name) ==
    << Item("Utf8", 0, 0, class_name), Item("Class", 1, 0, <<>>),
       Item("Utf8", 0, 0, method_name), Item("Utf8", 0, 0, StrVoidMethod),
       Item("Utf8", 0, 0, NameStackMapTable), Item("Utf8", 0, 0, StrTypeVariable),
       Item("Integer", 7, 0, <<>>), Item("NameAndType", 3, 4, <<>>),
       Item("Methodref", 2, 8, <<>>), Item("MethodHandle", 6, 9, <<>>) >>

\* a Code payload: max_stack 1, max_locals 1, the code bytes, one exception
\* entry catching #2, and a StackMapTable attribute with the given payload
CodePayload(bytes, frames) ==
    <<0, 1, 0, 1, 0, 0>> \o U16Bytes(Len(bytes)) \o bytes
    \o <<0, 1, 0, 0, 0, 2, 0, 2, 0, 2>>
    \o <<0, 1, 0, 5, 0, 0>> \o U16Bytes(Len(frames)) \o frames

\* bipush 5; nop --- nop; an unknown opcode
GoodCode == <<16, 5, 0>>
BadCode == <<0, 202>>
\* two frames (64 with Integer, 251 with offset 3) --- one frame of tag 128
GoodFrames == <<0, 2, 64, 1, 251, 0, 3>>
BadFrames == <<0, 1, 128>>

DropLast(s, n) == SubSeq(s, 1, Len(s) - n)

\* an attribute of the record: absent (<<>>) or present with a payload
Absent == <<>>
Present(info) == <<info>>

SampleCodes ==
    {Absent, Present(CodePayload(GoodCode, GoodFrames)),
     Present(CodePayload(BadCode, GoodFrames)), Present(CodePayload(GoodCode, BadFrames)),
     Present(DropLast(CodePayload(GoodCode, GoodFrames), 2))}

\* one exception #2 --- two declared, one there
SampleExceptions == {Absent, Present(<<0, 1, 0, 2>>), Present(<<0, 2, 0, 2>>)}

\* signature_index #6 ("TT;") --- #4 ("()V", no reference type)
SampleSignatures == {Absent, Present(<<0, 6>>), Present(<<0, 4>>)}

\* no table --- 0 entries --- the entry #10 --- #10 and #0 --- cut short
SampleBootstraps ==
    {Absent, Present(<<0, 0>>), Present(<<0, 1, 0, 10, 0, 0>>),
     Present(<<0, 2, 0, 10, 0, 0, 0, 0, 0, 0>>), Present(<<0, 1>>)}

WithAttribute(attrs, name, a) ==
    IF a = Absent THEN attrs ELSE InsertAttribute(attrs, name, a[1])

AccessMember(c, e, s) ==
    [name_index |-> 3, descriptor_index |-> 4,
     attributes |->
        WithAttribute(
            WithAttribute(
                WithAttribute(
                    InsertAttribute(NoAttributes, NameConstantValue, <<0, 7>>),
                    NameCode, c),
                NameExceptions, e),
            NameSignature, s)]

AccessClass(class_name, method_name, b) ==
    [constant_pool |-> AccessPool(class_name, method_name), this_class |-> 2,
     attributes |-> WithAttribute(NoAttributes, NameBootstrapMethods, b)]

AccessSample(class, record) == [form |-> "class", class |-> class, member |-> record]

\* the names, the attributes of the record and the class-level
\* BootstrapMethods attribute vary one group at a time
SampleAccesses ==
    {AccessSample(AccessClass(c, m, Present(<<0, 1, 0, 10, 0, 0>>)),
                  AccessMember(Present(CodePayload(GoodCode, GoodFrames)), Absent, Absent)) :
        c \in {StrBarBaz, StrA, StrAB}, m \in {StrFoo, StrFDollar}}
    \cup {AccessSample(AccessClass(StrBarBaz, StrFoo, Absent), AccessMember(c, e, s)) :
            c \in SampleCodes, e \in SampleExceptions, s \in SampleSignatures}
    \cup {AccessSample(AccessClass(StrBarBaz, StrFoo, b),
                       AccessMember(Present(CodePayload(GoodCode, GoodFrames)), Absent, Absent)) :
            b \in SampleBootstraps}

InitAccessSpec ==
    /\ overflow_checks \in BOOLEAN
    /\ InitPool
    /\ sample \in SampleAccesses
    /\ cf = sample.class
    /\ member = sample.member
    /\ code = <<>> /\ cursor = 0 /\ res = <<>> /\ starts = <<>>
    /\ ipc = "idle" /\ iresult = Ok(<<>>)
    /\ given = <<>> /\ applied = NoApplied
    /\ calls = <<>>

\* one call of an accessor with its result r; a panic ends the program
Call(accessor, arg, r) ==
    /\ Len(calls) < MaxCalls
    /\ \A k \in 1..Len(calls) : calls[k].result.res # "Panic"
    /\ calls' = Append(calls, [accessor |-> accessor, arg |-> arg, result |-> r])
    /\ member' = SharedBorrow(member)
    /\ cf' = SharedBorrow(cf)
    /\ UNCHANGED <<overflow_checks, poolVars, code, cursor, res, starts, ipc, iresult,
                   pureVars>>

CallCode == Call("code", 0, Method_code(member, cf))

CallExceptions == Call("exceptions", 0, Method_exceptions(member, cf))

CallSignature == Call("signature", 0, Field_signature(member, cf))

CallConstantValue == Call("constant_value", 0, Field_constant_value(member, cf))

CallDescriptor == Call("descriptor", 0, Method_descriptor(member, cf))

CallJniIdentifier == Call("jni_identifier", 0, Method_jni_identifier(member, cf))

\* Code::instructions on the Code that Method::code gives
CallInstructions ==
    LET OnCode(c) ==
            IF c.res # "Ok" THEN c
            ELSE IF ~c.val.some THEN Ok(None)
            ELSE Code_instructions(c.val.v, cf, overflow_checks)
    IN  Call("instructions", 0, OnCode(Method_code(member, cf)))

\* Code::stack_map_table on the Code that Method::code gives
CallStackMapTable ==
    LET OnCode(c) ==
            IF c.res # "Ok" THEN c
            ELSE IF ~c.val.some THEN Ok(None)
            ELSE Code_stack_map_table(c.val.v, cf)
    IN  Call("stack_map_table", 0, OnCode(Method_code(member, cf)))

CallBootstrapMethod ==
    \E idx \in 0..MaxBootstrapIndex :
        Call("bootstrap_method", idx, ClassFile_bootstrap_method(idx, cf))

NextAccess ==
    \/ CallCode
    \/ CallExceptions
    \/ CallSignature
    \/ CallConstantValue
    \/ CallDescriptor
    \/ CallJniIdentifier
    \/ CallInstructions
    \/ CallStackMapTable
    \/ CallBootstrapMethod

SpecAccess == InitAccessSpec /\ [][NextAccess]_vars

-----------------------------------------------------------------------------
(* Properties of the accessors.                                            *)

\* the class-level BootstrapMethods table of the class, when it decodes
HasBootstrapTable ==
    /\ NameBootstrapMethods \in DOMAIN cf.attributes
    /\ BootstrapMethods_read(cf.attributes[NameBootstrapMethods]).ok

BootstrapTable == BootstrapMethods_read(cf.attributes[NameBootstrapMethods]).v

\* C12: the lookup by 0-based index in the decoded BootstrapMethods table
\* returns the bootstrap method for every index below the table length and
\* an error for every index at or above it.
C12_LookupByIndex ==
    HasBootstrapTable =>
        \A k \in 1..Len(calls) :
            calls[k].accessor = "bootstrap_method" =>
                IF calls[k].arg < Len(BootstrapTable)
                THEN calls[k].result.res = "Ok" /\ calls[k].result.val.some
                ELSE calls[k].result.res = "Err"

\* c with every `/` and every `$` turned into `_`
Underscored(c) == [k \in 1..Len(c) |-> IF c[k] \in {47, 36} THEN 95 ELSE c[k]]

\* "Java_com_example_Bar_Baz_foo"
StrJniBarBazFoo ==
    <<74, 97, 118, 97, 95, 99, 111, 109, 95, 101, 120, 97, 109, 112, 108, 101, 95,
      66, 97, 114, 95, 66, 97, 122, 95, 102, 111, 111>>

\* the this-class name and the method name the pool of the class holds
ThisClassName == cf.constant_pool[cf.constant_pool[cf.this_class].a].s
MemberName == cf.constant_pool[member.name_index].s

\* C18: the native binding name of method m on class c is `Java_`, then c
\* with every `/` and `$` replaced by `_`, then `_`, then m unchanged; foo
\* on com/example/Bar$Baz gives Java_com_example_Bar_Baz_foo.
C18_JniIdentifier ==
    \A k \in 1..Len(calls) :
        calls[k].accessor = "jni_identifier" =>
            /\ calls[k].result
                 = Ok(StrJavaPrefix \o Underscored(ThisClassName) \o <<95>> \o MemberName)
            /\ (ThisClassName = StrBarBaz /\ MemberName = StrFoo)
                 => calls[k].result = Ok(StrJniBarBazFoo)

C18_Witness ==
    /\ ThisClassName = StrBarBaz
    /\ MemberName = StrFoo
    /\ \E k \in 1..Len(calls) :
          calls[k].accessor = "jni_identifier" /\ calls[k].result = Ok(StrJniBarBazFoo)

-----------------------------------------------------------------------------
(* The optional references: catch_type of an exception table entry and     *)
(* outer_class_info and inner_name of an InnerClasses entry.               *)

InnerClassAccessMask == 30239

\* InnerClass: inner_class_info, outer_class_info, inner_name and
\* inner_class_access_flags
InnerClass_read(s, p) ==
    LET inner_class_info == ReadU16(s, p)
        outer_class_info == ReadU16(s, p + 2)
        inner_name == ReadU16(s, p + 4)
        flags == ReadU16(s, p + 6)
    IN  IF flags.ok
        THEN ReadOk([inner_class_info |-> inner_class_info.v,
                     outer_class_info |-> OptionalIndex(outer_class_info.v),
                     inner_name |-> OptionalIndex(inner_name.v),
                     inner_class_access_flags |-> BitAnd(flags.v, InnerClassAccessMask)],
                    p + 8)
        ELSE ReadFail(p)

RECURSIVE InnerClass_reads(_, _, _)
InnerClass_reads(s, p, count) ==
    LET Rest(x, more) == IF more.ok THEN ReadOk(<<x.v>> \o more.v, more.pos) ELSE ReadFail(p)
        First(x) == IF ~x.ok THEN ReadFail(p)
                    ELSE Rest(x, InnerClass_reads(s, x.pos, count - 1))
    IN  IF count = 0 THEN ReadOk(<<>>, p) ELSE First(InnerClass_read(s, p))

\* InnerClasses: number_of_classes, then that many entries
InnerClasses_read(s) ==
    LET Counted(n) == IF ~n.ok THEN ReadFail(0) ELSE InnerClass_reads(s, n.pos, n.v)
    IN  Counted(ReadU16(s, 0))

MaxOptionalCut == 1

\* raw values of an optional reference
OptionalRaws == {0, 1, 2, 255, 256, 65535}

\* an exception table of one entry (pc 0, 4, 8) --- an InnerClasses payload
\* of one entry (inner class #2, flags public static)
OptionalBytes(form, a, b) ==
    IF form = "Exception"
    THEN <<0, 0, 0, 4, 0, 8>> \o U16Bytes(a)
    ELSE <<0, 1, 0, 2>> \o U16Bytes(a) \o U16Bytes(b) \o <<0, 9>>

OptionalSamples ==
    {[form |-> "Exception", a |-> a, b |-> 0, cut |-> cut] :
        a \in OptionalRaws, cut \in 0..MaxOptionalCut}
    \cup {[form |-> "InnerClasses", a |-> a, b |-> b, cut |-> cut] :
            a \in OptionalRaws, b \in OptionalRaws, cut \in 0..MaxOptionalCut}

InitOptional ==
    /\ overflow_checks = FALSE
    /\ InitPool
    /\ InitCode
    /\ InitAccess
    /\ sample \in OptionalSamples
    /\ given = DropLast(OptionalBytes(sample.form, sample.a, sample.b), sample.cut)
    /\ applied = NoApplied

FromRead(r) == IF r.ok THEN Ok(r.v) ELSE Err(BinrwError(BinrwIo))

ReadException ==
    /\ sample.form = "Exception"
    /\ Apply("Exception::read", FromRead(ExceptionTable_read(given, 0, 1)))

ReadInnerClasses ==
    /\ sample.form = "InnerClasses"
    /\ Apply("InnerClasses::read", FromRead(InnerClasses_read(given)))

NextOptional ==
    \/ ReadException
    \/ ReadInnerClasses

SpecOptional == InitOptional /\ [][NextOptional]_vars

\* the decoded value of the raw index x at an optional-reference site
AbsentOrPresent(x, decoded) ==
    /\ x = 0 => decoded = <<>>
    /\ x # 0 => decoded = <<x>>
    /\ decoded # <<0>>

\* C21: at catch_type, outer_class_info and inner_name the raw value 0 is
\* decoded to the absent value and every other raw value v to a present
\* reference with index v, so that index 0 is never kept as a reference.
C21_ZeroIsAbsent ==
    /\ (applied.op = "Exception::read" /\ applied.result.res = "Ok") =>
          AbsentOrPresent(sample.a, applied.result.val[1].catch_type)
    /\ (applied.op = "InnerClasses::read" /\ applied.result.res = "Ok") =>
          /\ AbsentOrPresent(sample.a, applied.result.val[1].outer_class_info)
          /\ AbsentOrPresent(sample.b, applied.result.val[1].inner_name)

C21_Witness ==
    /\ applied.op = "InnerClasses::read"
    /\ applied.result.res = "Ok"
    /\ sample.a = 0 /\ sample.b = 65535
    /\ applied.result.val[1].outer_class_info = <<>>
    /\ applied.result.val[1].inner_name = <<65535>>

-----------------------------------------------------------------------------
(* Properties of attribute tables whose names do not all resolve, or       *)
(* resolve to the same name.                                               *)

\* every name index of the table designates a slot of the pool
InRangeTable ==
    \A k \in 1..Len(sample.entries) : InPool(sample.entries[k].name_index, cf.constant_pool)

\* entry k has a name index that designates a slot that is not a Utf8 entry
NotUtf8Name(k) ==
    /\ InPool(sample.entries[k].name_index, cf.constant_pool)
    /\ cf.constant_pool[sample.entries[k].name_index].tag # "Utf8"

\* C22: every error arising while an attribute table is decoded is returned
\* to the caller: a table with a name index that designates an in-range slot
\* that is not a Utf8 entry gives an error, and no attribute is stored under
\* a substitute name.
C22_NameErrorsReturned ==
    (/\ applied.op = "Attributes::read"
     /\ InRangeTable
     /\ \E k \in 1..Len(sample.entries) : NotUtf8Name(k))
        => applied.result.res = "Err"

\* entry k has a name: its index designates a Utf8 entry
Resolves(k) ==
    /\ InPool(sample.entries[k].name_index, cf.constant_pool)
    /\ cf.constant_pool[sample.entries[k].name_index].tag = "Utf8"

ResolvedNames == {NameOfEntry(k) : k \in {j \in 1..Len(sample.entries) : Resolves(j)}}

\* the last entry in file order that has the name of entry k
LastNamed(k) ==
    CHOOSE j \in 1..Len(sample.entries) :
        /\ Resolves(j) /\ NameOfEntry(j) = NameOfEntry(k)
        /\ \A h \in (j + 1)..Len(sample.entries) :
              ~(Resolves(h) /\ NameOfEntry(h) = NameOfEntry(k))

\* two entries of the table resolve to the same name
RepeatedName ==
    \E j, k \in 1..Len(sample.entries) :
        j < k /\ Resolves(j) /\ Resolves(k) /\ NameOfEntry(j) = NameOfEntry(k)

\* C30: a table written whole in which several attributes have the same
\* resolved name decodes; the mapping has one entry for that name, with the
\* payload of its last occurrence in file order; and the mapping has as many
\* keys as there are distinct resolved names, at most the declared count.
C30_LastOccurrenceWins ==
    (applied.op = "Attributes::read" /\ sample.cut = 0 /\ RepeatedName) =>
        /\ applied.result.res = "Ok"
        /\ \A k \in 1..Len(sample.entries) :
              Resolves(k) =>
                  /\ NameOfEntry(k) \in DOMAIN applied.result.val
                  /\ applied.result.val[NameOfEntry(k)] = sample.entries[LastNamed(k)].info
        /\ Cardinality(DOMAIN applied.result.val) = Cardinality(ResolvedNames)
        /\ Cardinality(DOMAIN applied.result.val) <= Len(sample.entries)

-----------------------------------------------------------------------------
(* Properties of the widths of decoded instructions.                       *)

\* where the instruction after the k-th decoded one starts (the cursor when
\* the k-th is the last decoded so far)
NextStart(k) == IF k < Len(res) THEN starts[k + 1] ELSE cursor

\* C23: a decoded invokeinterface takes exactly 5 bytes of the code array
\* (opcode, 2-byte index, 1-byte count, one zero byte): the instruction that
\* follows is decoded from the opcode position plus 5.
C23_InvokeinterfaceWidth ==
    \A k \in 1..Len(res) :
        res[k].opcode = 185 => NextStart(k) = starts[k] + 5

\* the 16-bit value in the code array at offset p (0-based)
CodeU16(p) == code[p + 1] * 256 + code[p + 2]

\* the sub-opcode of the wide instruction decoded k-th
SubOpcode(k) == code[starts[k] + 2]

\* C24: a wide instruction is a 1-byte sub-opcode and a 16-bit index, and a
\* further 16-bit constant if and only if the sub-opcode is iinc (0x84): 6
\* bytes with the opcode for iinc, 4 bytes for every other sub-opcode.
C24_WideWidth ==
    \A k \in 1..Len(res) :
        res[k].opcode = 196 =>
            /\ res[k].index = CodeU16(starts[k] + 2)
            /\ SubOpcode(k) = 132 =>
                  /\ NextStart(k) = starts[k] + 6
                  /\ res[k].extra = <<132, CodeU16(starts[k] + 4)>>
            /\ SubOpcode(k) # 132 =>
                  /\ NextStart(k) = starts[k] + 4
                  /\ res[k].extra = <<SubOpcode(k), 0>>

\* a wide iinc and a wide iload, each followed by the next instruction
C24_Witness ==
    /\ ipc = "done" /\ iresult.res = "Ok"
    /\ Len(res) >= 2
    /\ \E j, k \in 1..Len(res) :
          /\ j + 1 = k
          /\ res[j].opcode = 196 /\ SubOpcode(j) = 132 /\ res[j].extra = <<132, 2>>
          /\ res[k].opcode = 196 /\ SubOpcode(k) = 21 /\ res[k].index = 258
          /\ starts[k] = starts[j] + 6
          /\ cursor = starts[k] + 4

\* the position just after the magic, the two versions and the declared count
AfterCount == 4 + 2 + 2 + 2

-----------------------------------------------------------------------------
(* ConstantPool::read_options far into a large pool.  The class file       *)
(* declares a count near 65535 and starts with at - 1 entries `Class #1`,  *)
(* then the entries of a short tail.  The loop is taken up in the state it *)
(* is in after those leading entries, with i = at, and only what comes     *)
(* after them is kept: stream holds the bytes from the first tail entry    *)
(* on, pos counts from there, and cpool and decodedAt hold what the loop   *)
(* pushes from there on.  sample records count, at and the tail.           *)

MaxTail == 2

\* the declared counts and the logical indices the loop is taken up at
FarCounts == {U16Max - 1, U16Max}
FarIndices == {U16Max - 3, U16Max - 2, U16Max - 1}

TailEntries ==
    { Item("Class", 1, 0, <<>>),
      Item("Integer", -1, 0, <<>>),
      Item("Long", 0, 0, <<0, 0, 0, 0, 0, 0, 0, 1>>) }

InitIndex ==
    /\ overflow_checks \in BOOLEAN
    /\ \E count \in FarCounts, at \in FarIndices, tail \in SeqsUpTo(TailEntries, MaxTail) :
          /\ at < count
          /\ sample = [form |-> "pool", count |-> count, at |-> at, tail |-> tail]
          /\ entries = tail
          /\ stream = EncodeItems(tail) \o RestEmpty
          /\ cpool_count = count
          /\ i = at
    /\ cpool = <<>> /\ decodedAt = <<>> /\ pos = 0
    /\ pc = "items"
    /\ outcome = Ok(<<>>) /\ query = NoQuery
    /\ InitCode
    /\ given = <<>> /\ applied = NoApplied
    /\ InitAccess

NextIndex ==
    \/ ReadItem
    \/ PoolDone

SpecIndex == InitIndex /\ [][NextIndex]_vars

\* the number of slots of the whole pool: the leading entries and cpool
SlotsPushed == (sample.at - 1) + Len(cpool)

-----------------------------------------------------------------------------
(* Properties of the constant-pool loop: slots, index and termination.     *)


\* C28: after a successful constant-pool decode with declared count n >= 1
\* the pool holds exactly n - 1 slots (entries and padding markers), also
\* when the last entry is a Long or Double at logical index n - 1; with
\* declared count 0 or 1 the pool is empty and no entry bytes are read.
C28_PoolSlots ==
    pc = "rest" =>
        /\ cpool_count >= 1 => Len(cpool) = cpool_count - 1
        /\ cpool_count <= 1 => cpool = <<>> /\ pos = AfterCount

\* C27: the 16-bit logical index of the constant-pool loop never overflows:
\* for every declared count and every sequence of entries, a Long or Double
\* at logical index 65534 with declared count 65535 included, adding the
\* bump keeps the index within 16 bits (it stays one more than the number of
\* slots pushed, with no abort) and the loop then stops.
C27_IndexFits ==
    /\ outcome.res # "Panic"
    /\ pc \in {"items", "rest"} => (i = 1 + SlotsPushed /\ i <= U16Max)
    /\ pc = "rest" => i >= cpool_count

\* C25: both decode loops end on every finite input: every decoded
\* instruction moves the code cursor forward by at least one byte, every
\* constant-pool iteration makes the logical index strictly larger, and the
\* loop ends in success or in an error.
C25_LoopsProgress ==
    [][/\ res' # res => cursor' > cursor
       /\ cpool' # cpool => (i' > i /\ outcome'.res # "Panic")]_vars

-----------------------------------------------------------------------------
(* Properties of tableswitch and sipush.                                   *)

\* the decode loop stopped at an instruction with this opcode
StoppedAt(op) ==
    /\ ipc = "done"
    /\ iresult.res # "Ok"
    /\ cursor < Len(code)
    /\ code[cursor + 1] = op

\* C26: for every pair (low, high) read by tableswitch the decode gives a
\* jump table of exactly high - low + 1 offsets or returns a decode error;
\* the computation of high - low + 1 never aborts the program, also when
\* high < low.
C26_TableswitchCount ==
    /\ \A k \in 1..Len(res) :
          res[k].opcode = 170 =>
              Len(res[k].words) = res[k].extra[2] - res[k].extra[1] + 1
    /\ StoppedAt(170) => iresult.res = "Err"

\* C29: the value of a decoded sipush is its two operand bytes read as a
\* signed big-endian 16-bit integer and sign-extended to 32 bits, so that
\* it lies in -32768..32767 (the operand bytes 0xFF 0xFF give -1).
C29_SipushSigned ==
    \A k \in 1..Len(res) :
        res[k].opcode = 17 =>
            /\ res[k].value = I16(CodeU16(starts[k] + 1))
            /\ res[k].value \in -32768..32767

====
